---- MODULE Spec2Model ----
(***************************************************************************)
(* A model of the statsd clients of rogpeppe/statsd.                       *)
(*                                                                         *)
(*   - Client (src/statsd.go, lines 36-250): a packet buffer guarded by a  *)
(*     mutex, an error callback and a per-client random source.            *)
(*   - the reconnecting client (src/statsd_test.go, lines 295-445).        *)
(*                                                                         *)
(* Byte slices are TLA+ strings; Len, \o and SubSeq act on them as on      *)
(* sequences of bytes.                                                     *)
(***************************************************************************)
EXTENDS Integers, Sequences, FiniteSets, TLC

(***************************************************************************)
(* Bounds of the model.                                                    *)
(***************************************************************************)
\* c.size. NewClient sets it to defaultBufSize (512); the model scales the
\* packet size down so that short stat names reach the overflow paths.
BufSize == 12

\* Number of goroutines calling the Client concurrently.
NThreads == 2

\* Number of API calls the single goroutine makes on the Client in one behaviour.
MaxOps == 3

\* Number of API calls the concurrent goroutines make between them.
MaxConcOps == 4

Threads == 1..NThreads

(***************************************************************************)
(* Encoding: strconv.AppendInt, strconv.AppendFloat and metric.append.     *)
(***************************************************************************)
\* Rates are float64 in the source; the model holds them in hundredths, so
\* that RateOne stands for 1.0 and 50 for 0.5.
RateOne == 100

Digit(d) == SubSeq("0123456789", d + 1, d + 1)

RECURSIVE Digits(_)
Digits(n) == IF n < 10 THEN Digit(n) ELSE Digits(n \div 10) \o Digit(n % 10)

\* strconv.AppendInt(buf, n, 10) appends FormatInt(n).
FormatInt(n) == IF n < 0 THEN "-" \o Digits(-n) ELSE Digits(n)

\* strconv.AppendFloat(buf, rate, 'f', -1, 64): the shortest decimal that
\* reads back as rate, for a rate given in hundredths.
FormatFloat(r) ==
    LET a    == IF r < 0 THEN -r ELSE r
        frac == a % RateOne
        int  == Digits(a \div RateOne)
        dec  == IF frac = 0 THEN ""
                ELSE IF frac % 10 = 0 THEN "." \o Digit(frac \div 10)
                ELSE "." \o Digit(frac \div 10) \o Digit(frac % 10)
    IN (IF r < 0 THEN "-" ELSE "") \o int \o dec

signMaybe == "signMaybe"
signRequired == "signRequired"
signNone == "signNone"

\* type metric
Metric(stat, sign, n, kind, rate) ==
    [stat |-> stat, sign |-> sign, n |-> n, kind |-> kind, rate |-> rate]

NoMetric == Metric("", signMaybe, 0, "", RateOne)

\* A faulty variant of metric_append: the new entry is put in front of the buffer.
metric_prepend(m, b) ==
    LET e == m.stat \o ":" \o FormatInt(m.n) \o "|" \o m.kind
    IN IF Len(b) > 0 THEN e \o "\n" \o b ELSE e

\* A faulty variant of resetsGauge: a negative absolute value is written as
\* it is.
resetsGaugeNever(m) == FALSE

\* metric.append: "if m.sign == signNone && m.n < 0"
resetsGauge(m) == m.sign = signNone /\ m.n < 0

\* A faulty variant of separates: no newline is put between two entries.
separatesNever(b) == FALSE

\* A faulty variant of separates: every entry is led by a newline.
separatesAlways(b) == TRUE

\* metric.append: "if len(buf) > 0", a newline goes before the entry
separates(b) == Len(b) > 0

\* A faulty variant of plusSign: a change of zero is written without a sign.
plusSignAboveZero(m) == m.sign = signRequired /\ m.n > 0

\* metric.append: "if m.sign == signRequired && m.n >= 0"
plusSign(m) == m.sign = signRequired /\ m.n >= 0

\* func (m *metric) append(buf []byte) []byte
metric_append(m, b) ==
    LET b1 == IF separates(b) THEN b \o "\n" ELSE b
        b2 == IF resetsGauge(m)
              THEN b1 \o m.stat \o ":0|g\n" ELSE b1
        b3 == b2 \o m.stat \o ":"
        b4 == IF plusSign(m) THEN b3 \o "+" ELSE b3
        b5 == b4 \o FormatInt(m.n) \o "|" \o m.kind
    IN IF m.rate < RateOne THEN b5 \o "|@" \o FormatFloat(m.rate) ELSE b5

\* The encoding of one metric on its own: m.append(nil).
Encode(m) == metric_append(m, "")

(***************************************************************************)
(* The Client of src/statsd.go.                                            *)
(***************************************************************************)
VARIABLES
    buf,        \* c.buf: the packet buffer
    conn,       \* c.conn: index into socks of the current connection, 0 for nil
    errorFunc,  \* c.errorFunc: "nil" or the kind of callback registered
    mu,         \* c.mu: 0 when free, else the goroutine holding it
    rand,       \* c.rand: the number of values drawn from the random source
    socks,      \* every connection net.Dial has returned: [addr, closed]
    wire,       \* every conn.Write made: [sock, data, ok]
    errs,       \* every invocation of the error callback: [err, by, cb]
    stack,      \* stack[t]: the call frames of goroutine t, innermost last
    last,       \* last[t]: what the last call that returned to t did
    left        \* the number of API calls still to be made

\* The reconnecting client of src/statsd_test.go and the network it dials.
VARIABLES
    client_buf,     \* c.buf: the bytes buffered
    client_conn,    \* c.conn: index into client_socks, 0 for nil
    client_socks,   \* every connection net.Dial has returned:
                    \* [addr, closed, pending]
    client_events,  \* every dial, write and close made: [ev, sock, data, ok, rcvd]
    client_log,     \* every call that has returned, in order
    dialOK,         \* net.Dial("udp", c.addr) succeeds
    listening       \* a listener is bound to c.addr

clientVars == <<buf, conn, errorFunc, mu, rand, socks>>
statsdVars == <<buf, conn, errorFunc, mu, rand, socks, wire, errs, stack, last>>
reconnVars == <<client_buf, client_conn, client_socks, client_events,
                client_log, dialOK, listening>>
\* What the specifications of one case work on: the conversion of a
\* duration to milliseconds, a batch of metrics emitted and then flushed,
\* and two Clients made by NewClient side by side.
VARIABLES
    time_Duration,  \* the duration handed to Client.Duration, an int64
    metric_n,       \* the n of the metric made from it, once it is made
    batch,          \* the metrics that SpecBatch emits, in order
    clients,        \* clients[c]: the Client c of SpecTwo, with what it was
                    \* asked to do and what it did
    source          \* the values that a source made by rand.NewSource(0)
                    \* yields, in order
\* The package-level facade of api.go.
VARIABLES
    current,        \* current: "nilClient" or "client", the kind of Client
                    \* the package functions call
    api_log         \* every call of a package function that has returned
\* The client of statsd.go lines 320-461, which buffers in a bufio.Writer.
VARIABLES
    bufio_buf,      \* c.buf: the bytes buffered in the bufio.Writer
    bufio_nil,      \* c.buf == nil: Close has discarded the writer
    bufio_err,      \* the writer's sticky error: a write to the conn failed
    bufio_m,        \* c.m: 0 when free, else the goroutine holding it
    bufio_wire,     \* every datagram the writer has handed to c.conn
    bufio_closed,   \* c.conn has been closed
    bufio_pc,       \* bufio_pc[t]: where goroutine t is in its call
    bufio_loc,      \* bufio_loc[t]: the locals of the call of goroutine t
    bufio_done      \* the lines of the emits that have returned nil

bufioVars == <<bufio_buf, bufio_nil, bufio_err, bufio_m, bufio_wire,
               bufio_closed, bufio_pc, bufio_loc, bufio_done>>
caseVars == <<time_Duration, metric_n, batch, clients, source,
              current, api_log, bufioVars>>
vars == <<buf, conn, errorFunc, mu, rand, socks, wire, errs, stack, last, left,
          client_buf, client_conn, client_socks, client_events, client_log,
          dialOK, listening, time_Duration, metric_n, batch, clients, source,
          current, api_log, bufio_buf, bufio_nil, bufio_err, bufio_m,
          bufio_wire, bufio_closed, bufio_pc, bufio_loc, bufio_done>>

errTooBig == "metric too big"
errWrite == "write error"

\* The callbacks a caller may register: none, one that notes the error and
\* returns, and one that calls Flush on the same Client.
ErrorFuncs == {"nil", "record", "reenter"}

\* Values c.rand.Float64() may return, in hundredths: [0, 1).
Draws == {0, 50, 99}
NoDraw == -1

\* Addresses given to net.Dial. A literal address with a port always dials,
\* a host name may fail to resolve, an address without a port never dials.
Addrs == {"127.0.0.1:999", "localhost:8125", "noport"}
DialOutcomes(addr) ==
    IF addr = "noport" THEN {FALSE}
    ELSE IF addr = "localhost:8125" THEN BOOLEAN
    ELSE {TRUE}

\* The outcomes of c.conn.Write: a closed connection refuses every write,
\* an open one may fail or succeed.
WriteOutcomes(s) == IF socks[s].closed > 0 THEN {FALSE} ELSE BOOLEAN

NewFrame(op, m, sock, f) ==
    [pc |-> "lock", op |-> op, m |-> m, sock |-> sock, f |-> f,
     b |-> "", oldLen |-> 0, cont |-> "", cb |-> "nil", nested |-> FALSE,
     buf0 |-> "", wire0 |-> 0, errs0 |-> 0, cb0 |-> "nil", conn0 |-> 0,
     rand0 |-> 0, u |-> NoDraw, api |-> "", fcalls |-> 0]

NoCall ==
    [op |-> "none", m |-> NoMetric, sock |-> 0, f |-> "nil", failed |-> FALSE,
     u |-> NoDraw, buf0 |-> "", buf1 |-> "", wire0 |-> 0, wire1 |-> 0,
     errs0 |-> 0, errs1 |-> 0, cb0 |-> "nil", conn0 |-> 0, conn1 |-> 0,
     rand0 |-> 0, rand1 |-> 0, api |-> "", fcalls |-> 0]

Idle(t) == stack[t] = <<>>
Top(t) == stack[t][Len(stack[t])]
At(t, pc) == ~Idle(t) /\ Top(t).pc = pc
Push(t, fr) == stack' = [stack EXCEPT ![t] = Append(@, fr)]
SetTop(t, fr) == stack' = [stack EXCEPT ![t] = [@ EXCEPT ![Len(@)] = fr]]

Millisecond == 1000000

\* A time.Duration is an int64 count of nanoseconds.  An int64 is held as
\* a sign and three digits h, m, l of base Millisecond:
\* (h * Millisecond + m) * Millisecond + l.
Int64(neg, h, m, l) == [h |-> h, l |-> l, m |-> m, neg |-> neg]

\* time.Duration(d) for an integer 0 <= d that the model can hold
ToInt64(d) == Int64(FALSE, 0, d \div Millisecond, d % Millisecond)

\* math.MaxInt64 = 9223372036854775807, and the magnitude of 2^64
MaxInt64 == Int64(FALSE, 9223372, 36854, 775807)
Two64 == Int64(FALSE, 18446744, 73709, 551616)

\* a + k as numbers, for a >= 0 and 0 <= k < Millisecond
Sum(a, k) ==
    LET l2 == a.l + k
        m2 == a.m + l2 \div Millisecond
    IN Int64(FALSE, a.h + m2 \div Millisecond, m2 % Millisecond,
             l2 % Millisecond)

\* a <= math.MaxInt64, for a >= 0
FitsInt64(a) ==
    \/ a.h < MaxInt64.h
    \/ a.h = MaxInt64.h /\ a.m < MaxInt64.m
    \/ a.h = MaxInt64.h /\ a.m = MaxInt64.m /\ a.l <= MaxInt64.l

\* The int64 that a sum beyond math.MaxInt64 wraps around to: a - 2^64.
Wrapped(a) ==
    LET l2 == Two64.l - a.l
        bl == IF l2 < 0 THEN 1 ELSE 0
        m2 == Two64.m - a.m - bl
        bm == IF m2 < 0 THEN 1 ELSE 0
    IN Int64(TRUE, Two64.h - a.h - bm, m2 + bm * Millisecond,
             l2 + bl * Millisecond)

\* duration + k in int64
Add64(a, k) == LET s == Sum(a, k) IN IF FitsInt64(s) THEN s ELSE Wrapped(s)

\* v / time.Millisecond in int64: Go's division truncates toward zero.
Quo64(v) == Int64(v.neg /\ (v.h # 0 \/ v.m # 0), 0, v.h, v.m)

\* Duration: "int((duration + time.Millisecond/2) / time.Millisecond)",
\* for a non-negative duration and an int of 64 bits.
Rounded(duration) == Quo64(Add64(duration, Millisecond \div 2))

\* An int64 as an integer of the model, when it is small enough.
ToInt(v) ==
    LET a == (v.h * Millisecond + v.m) * Millisecond + v.l
    IN IF v.neg THEN -a ELSE a

\* No metric has been made from time_Duration.
NoMetricN == <<>>

\* No duration is being converted on its own.
NoDuration ==
    /\ time_Duration = ToInt64(0)
    /\ metric_n = NoMetricN

\* No batch of metrics is to be emitted.
NoBatch == batch = <<>>

\* No two Clients are studied side by side.
NoClients == clients = <<>> /\ source = <<>>

\* The locals of a goroutine that is in no call of the bufio client.
NoLocals == [at |-> "", cont |-> "", format |-> "", line |-> "", p |-> ""]

\* No bufio client has been made.
NoBufio ==
    /\ bufio_buf = ""
    /\ bufio_nil = FALSE
    /\ bufio_err = FALSE
    /\ bufio_m = 0
    /\ bufio_wire = <<>>
    /\ bufio_closed = FALSE
    /\ bufio_pc = [t \in 1..NThreads |-> "idle"]
    /\ bufio_loc = [t \in 1..NThreads |-> NoLocals]
    /\ bufio_done = <<>>

\* The package functions are not called.
NoFacade == current = "nilClient" /\ api_log = <<>>

\* No reconnecting client has been made.
NoClient ==
    /\ client_buf = ""
    /\ client_conn = 0
    /\ client_socks = <<>>
    /\ client_events = <<>>
    /\ client_log = <<>>
    /\ dialOK = TRUE
    /\ listening = TRUE

\* NewClient(hostPort)
NewClientArgs == {"127.0.0.1:999", "noport"}

\* NewClient(hostPort) has returned. Either it returned a Client, with size
\* and rand set and the first connection installed by SetHostPort, or
\* SetHostPort failed and it returned nil and the error: there is no Client
\* and no call to make.
Init ==
    /\ buf = ""
    /\ errorFunc = "nil"
    /\ mu = 0
    /\ rand = 0
    /\ wire = <<>>
    /\ errs = <<>>
    /\ stack = [t \in Threads |-> <<>>]
    /\ last = [t \in Threads |-> NoCall]
    /\ \E hostPort \in NewClientArgs : \E ok \in DialOutcomes(hostPort) :
          IF ok
          THEN /\ conn = 1
               /\ socks = <<[addr |-> hostPort, closed |-> 0]>>
               /\ left = MaxOps
          ELSE /\ conn = 0
               /\ socks = <<>>
               /\ left = 0
    /\ NoClient
    /\ NoFacade
    /\ NoBufio
    /\ NoDuration
    /\ NoBatch
    /\ NoClients

----------------------------------------------------------------------------
\* The calls. Each pushes a frame that waits for c.mu.

\* func (c *Client) send(m *metric), up to c.mu.Lock()
send(t, m) ==
    /\ Idle(t)
    /\ left > 0
    /\ left' = left - 1
    /\ Push(t, NewFrame("send", m, 0, "nil"))
    /\ UNCHANGED <<buf, conn, errorFunc, mu, rand, socks, wire, errs, last>>
    /\ UNCHANGED <<reconnVars, caseVars>>

Increment(t, stat, delta, rate) ==
    send(t, Metric(stat, signMaybe, delta, "c", rate))

Duration(t, stat, duration, rate) ==
    send(t, Metric(stat, signMaybe,
                   ToInt(Rounded(ToInt64(duration))), "ms", rate))

\* A faulty variant of timeFunctionCalls: f is skipped when the rate is such
\* that nothing is ever recorded.
timeFunctionCallsSampled(rate) == IF rate <= 0 THEN 0 ELSE 1

\* TimeFunction: "f()", the number of times f is called
timeFunctionCalls(rate) == 1

\* func (c *Client) TimeFunction(stat, rate, f): "ts := time.Now(); f()".
\* f is running; nothing of the Client is touched yet.
TimeFunction(t, stat, rate) ==
    /\ Idle(t)
    /\ left > 0
    /\ left' = left - 1
    /\ Push(t, [NewFrame("send", Metric(stat, signMaybe, 0, "ms", rate), 0, "nil")
                   EXCEPT !.pc = "f", !.api = "TimeFunction",
                          !.fcalls = timeFunctionCalls(rate)])
    /\ UNCHANGED <<buf, conn, errorFunc, mu, rand, socks, wire, errs, last>>
    /\ UNCHANGED <<reconnVars, caseVars>>

\* The time f may take, in nanoseconds.
Elapsed == {2000000}

\* TimeFunction, f has returned: "c.Duration(stat, time.Since(ts), rate)",
\* up to c.mu.Lock()
TimeFunctionDuration(t) ==
    /\ At(t, "f")
    /\ \E d \in Elapsed :
          SetTop(t, [Top(t) EXCEPT !.pc = "lock",
                        !.m.n = ToInt(Rounded(ToInt64(d)))])
    /\ UNCHANGED <<buf, conn, errorFunc, mu, rand, socks, wire, errs, last, left>>
    /\ UNCHANGED <<reconnVars, caseVars>>

Gauge(t, stat, value) ==
    send(t, Metric(stat, signNone, value, "g", RateOne))

IncrementGauge(t, stat, delta) ==
    send(t, Metric(stat, signRequired, delta, "g", RateOne))

Unique(t, stat, count) ==
    send(t, Metric(stat, signMaybe, count, "s", RateOne))

\* func (c *Client) Flush(), up to c.mu.Lock()
Flush(t) ==
    /\ Idle(t)
    /\ left > 0
    /\ left' = left - 1
    /\ Push(t, NewFrame("Flush", NoMetric, 0, "nil"))
    /\ UNCHANGED <<buf, conn, errorFunc, mu, rand, socks, wire, errs, last>>
    /\ UNCHANGED <<reconnVars, caseVars>>

\* func (c *Client) SetErrorFunc(f func(err error)), up to c.mu.Lock()
SetErrorFunc(t, f) ==
    /\ Idle(t)
    /\ left > 0
    /\ left' = left - 1
    /\ Push(t, NewFrame("SetErrorFunc", NoMetric, 0, f))
    /\ UNCHANGED <<buf, conn, errorFunc, mu, rand, socks, wire, errs, last>>
    /\ UNCHANGED <<reconnVars, caseVars>>

\* A faulty variant of dialFailed: the connection is dropped.
dialFailedDrops(c) == 0

\* SetHostPort: "if err != nil { return err }" returns with c.conn as it is
dialFailed(c) == c

\* func (c *Client) SetHostPort(addr string) error, up to c.mu.Lock():
\* the dial is made before the lock is taken, and a failed dial returns.
SetHostPort(t, addr) ==
    /\ Idle(t)
    /\ left > 0
    /\ left' = left - 1
    /\ \E ok \in DialOutcomes(addr) :
        IF ok
        THEN /\ socks' = Append(socks, [addr |-> addr, closed |-> 0])
             /\ Push(t, NewFrame("SetHostPort", NoMetric, Len(socks) + 1, "nil"))
             /\ UNCHANGED <<conn, last>>
        ELSE /\ last' = [last EXCEPT ![t] =
                    [NoCall EXCEPT !.op = "SetHostPort", !.failed = TRUE,
                                   !.buf0 = buf, !.buf1 = buf,
                                   !.wire0 = Len(wire), !.wire1 = Len(wire),
                                   !.errs0 = Len(errs), !.errs1 = Len(errs),
                                   !.cb0 = errorFunc,
                                   !.conn0 = conn, !.conn1 = dialFailed(conn),
                                   !.rand0 = rand, !.rand1 = rand]]
             /\ conn' = dialFailed(conn)
             /\ UNCHANGED <<socks, stack>>
    /\ UNCHANGED <<buf, errorFunc, mu, rand, wire, errs>>
    /\ UNCHANGED <<reconnVars, caseVars>>

----------------------------------------------------------------------------
\* A faulty variant of tryLock: the mutex lets every goroutine in.
tryLockAlways(m) == TRUE

\* sync.Mutex: Lock returns only when no goroutine holds the mutex.
tryLock(m) == m = 0

\* c.mu.Lock(): the frame notes what it finds on entering the critical
\* section.
\* A faulty variant of mutex_Unlock: the lock stays with its holder.
mutex_UnlockNot(m) == m

\* "defer c.mu.Unlock()": the lock is free when the operation returns
mutex_Unlock(m) == 0

Lock(t) ==
    /\ At(t, "lock")
    /\ tryLock(mu)
    /\ mu' = t
    /\ SetTop(t, [Top(t) EXCEPT !.pc = "body", !.buf0 = buf,
                                !.wire0 = Len(wire), !.errs0 = Len(errs),
                                !.cb0 = errorFunc, !.conn0 = conn,
                                !.rand0 = rand])
    /\ UNCHANGED <<buf, conn, errorFunc, rand, socks, wire, errs, last, left>>
    /\ UNCHANGED <<reconnVars, caseVars>>

\* A faulty variant of flushWrites: flush writes whatever the buffer holds.
flushWritesAlways(b) == TRUE

\* flush: "if len(c.buf) == 0 { return }"
flushWrites(b) == Len(b) # 0

\* A faulty variant of flushed: the buffer is not truncated.
flushedKeepsAll(b, ok) == b

\* A faulty variant of flushed: data whose write failed is kept for the next flush.
flushedKeepsFailed(b, ok) == IF ok THEN "" ELSE b

\* flush: "c.buf = c.buf[:0]", whatever the write returned
flushed(b, ok) == ""

\* A faulty variant of flushReports: every write is reported.
flushReportsAll(ok, f) == f # "nil"

\* flush: "if err != nil && c.errorFunc != nil { c.errorFunc(err) }"
flushReports(ok, f) == ~ok /\ f # "nil"

\* A faulty variant of fits: a buffer of exactly the maximum size is refused.
fitsBelow(b) == Len(b) < BufSize

\* send: "if len(buf) <= c.size"
fits(b) == Len(b) <= BufSize

\* send: "if oldLen == 0", the metric alone is too big
tooBig(oldLen) == oldLen = 0

\* A faulty variant of carry: the entry that did not fit is given up.
carryDropped(cur, b, oldLen) == cur

\* A faulty variant of carry: the separating newline is copied too.
carryNewline(cur, b, oldLen) == cur \o SubSeq(b, oldLen + 1, Len(b))

\* send: "c.buf = append(c.buf, buf[oldLen+1:]...)"
carry(cur, b, oldLen) == cur \o SubSeq(b, oldLen + 2, Len(b))

\* A faulty variant of sampledOut: a draw equal to the rate is included.
sampledOutAbove(m, u) == m.rate < RateOne /\ u > m.rate

\* send: "if m.rate < 1 && c.rand.Float64() >= m.rate { return }"
sampledOut(m, u) == m.rate < RateOne /\ u >= m.rate

\* A faulty variant of CallErrorFunc: the callback is called with c.mu released.
CallErrorFuncUnlocked(t, fr, err, cont) ==
    /\ errs' = Append(errs, [err |-> err, by |-> t, cb |-> errorFunc])
    /\ SetTop(t, [fr EXCEPT !.pc = "errorFunc", !.cont = cont, !.cb = errorFunc])
    /\ mu' = 0

\* c.errorFunc(err), called by goroutine t from the frame on top of its
\* stack. The call is made inside flush and send, before the deferred
\* c.mu.Unlock() has run: c.mu stays as it is.
CallErrorFunc(t, fr, err, cont) ==
    /\ errs' = Append(errs, [err |-> err, by |-> t, cb |-> errorFunc])
    /\ SetTop(t, [fr EXCEPT !.pc = "errorFunc", !.cont = cont, !.cb = errorFunc])
    /\ mu' = mu

\* No callback is called: the frame goes on to its deferred c.mu.Unlock().
NoErrorFunc(t, fr) ==
    /\ SetTop(t, [fr EXCEPT !.pc = "unlock"])
    /\ UNCHANGED <<errs, mu>>

\* func (c *Client) send(m *metric), from c.mu.Lock() to the return or to the
\* call of the error callback
SendBody(t) ==
    /\ At(t, "body")
    /\ Top(t).op = "send"
    /\ mu = t
    /\ LET m == Top(t).m
           oldLen == Len(buf)
           b == metric_append(m, buf)
       IN \E u \in (IF m.rate < RateOne THEN Draws ELSE {NoDraw}) :
          LET fr == [Top(t) EXCEPT !.u = u, !.b = b, !.oldLen = oldLen] IN
          /\ rand' = IF m.rate < RateOne THEN rand + 1 ELSE rand
          /\ IF sampledOut(m, u)
             THEN /\ NoErrorFunc(t, fr)
                  /\ UNCHANGED <<buf, wire>>
             ELSE IF fits(b)
             THEN /\ buf' = b
                  /\ NoErrorFunc(t, fr)
                  /\ UNCHANGED wire
             ELSE IF tooBig(oldLen)
             THEN /\ IF errorFunc # "nil"
                     THEN CallErrorFunc(t, fr, errTooBig, "unlock")
                     ELSE NoErrorFunc(t, fr)
                  /\ UNCHANGED <<buf, wire>>
             ELSE IF flushWrites(buf)
             THEN \E ok \in WriteOutcomes(conn) :
                  /\ wire' = Append(wire, [sock |-> conn, data |-> buf, ok |-> ok])
                  /\ IF flushReports(ok, errorFunc)
                     THEN /\ buf' = flushed(buf, ok)
                          /\ CallErrorFunc(t, fr, errWrite, "resume")
                     ELSE /\ buf' = carry(flushed(buf, ok), b, oldLen)
                          /\ NoErrorFunc(t, fr)
             ELSE /\ buf' = carry(buf, b, oldLen)
                  /\ NoErrorFunc(t, fr)
                  /\ UNCHANGED wire
    /\ UNCHANGED <<conn, errorFunc, socks, last, left>>
    /\ UNCHANGED <<reconnVars, caseVars>>

\* send, after the error callback called by its flush has returned
SendResume(t) ==
    /\ At(t, "resume")
    /\ mu = t
    /\ buf' = carry(buf, Top(t).b, Top(t).oldLen)
    /\ SetTop(t, [Top(t) EXCEPT !.pc = "unlock"])
    /\ UNCHANGED <<conn, errorFunc, mu, rand, socks, wire, errs, last, left>>
    /\ UNCHANGED <<reconnVars, caseVars>>

\* func (c *Client) Flush(), from c.mu.Lock(): c.flush()
FlushBody(t) ==
    /\ At(t, "body")
    /\ Top(t).op = "Flush"
    /\ mu = t
    /\ IF flushWrites(buf)
       THEN \E ok \in WriteOutcomes(conn) :
            /\ wire' = Append(wire, [sock |-> conn, data |-> buf, ok |-> ok])
            /\ buf' = flushed(buf, ok)
            /\ IF flushReports(ok, errorFunc)
               THEN CallErrorFunc(t, Top(t), errWrite, "unlock")
               ELSE NoErrorFunc(t, Top(t))
       ELSE /\ NoErrorFunc(t, Top(t))
            /\ UNCHANGED <<buf, wire>>
    /\ UNCHANGED <<conn, errorFunc, rand, socks, last, left>>
    /\ UNCHANGED <<reconnVars, caseVars>>

\* SetErrorFunc, from c.mu.Lock()
SetErrorFuncBody(t) ==
    /\ At(t, "body")
    /\ Top(t).op = "SetErrorFunc"
    /\ mu = t
    /\ errorFunc' = Top(t).f
    /\ SetTop(t, [Top(t) EXCEPT !.pc = "unlock"])
    /\ UNCHANGED <<buf, conn, mu, rand, socks, wire, errs, last, left>>
    /\ UNCHANGED <<reconnVars, caseVars>>

\* A faulty variant of conn_Close: the connection is left open.
conn_CloseNot(S, c) == S

\* c.conn.Close(): one more Close of connection c
conn_Close(S, c) == [S EXCEPT ![c].closed = @ + 1]

\* SetHostPort, from c.mu.Lock(): close the old connection, install the new
SetHostPortBody(t) ==
    /\ At(t, "body")
    /\ Top(t).op = "SetHostPort"
    /\ mu = t
    /\ socks' = IF conn # 0
                THEN conn_Close(socks, conn)
                ELSE socks
    /\ conn' = Top(t).sock
    /\ SetTop(t, [Top(t) EXCEPT !.pc = "unlock"])
    /\ UNCHANGED <<buf, errorFunc, mu, rand, wire, errs, last, left>>
    /\ UNCHANGED <<reconnVars, caseVars>>

\* The error callback returns: at once when it only notes the error, and
\* after its own call of the Client has returned when it makes one.
ErrorFuncReturn(t) ==
    /\ At(t, "errorFunc")
    /\ Top(t).cb = "record" \/ Top(t).nested
    /\ SetTop(t, [Top(t) EXCEPT !.pc = Top(t).cont])
    /\ UNCHANGED <<buf, conn, errorFunc, mu, rand, socks, wire, errs, last, left>>
    /\ UNCHANGED <<reconnVars, caseVars>>

\* The error callback calls Flush on the Client it was called by.
ErrorFuncReenter(t) ==
    /\ At(t, "errorFunc")
    /\ Top(t).cb = "reenter"
    /\ ~Top(t).nested
    /\ Len(stack[t]) = 1
    /\ Push(t, NewFrame("Flush", NoMetric, 0, "nil"))
    /\ UNCHANGED <<buf, conn, errorFunc, mu, rand, socks, wire, errs, last, left>>
    /\ UNCHANGED <<reconnVars, caseVars>>

\* c.mu.Unlock() and the return to the caller
Unlock(t) ==
    /\ At(t, "unlock")
    /\ mu = t
    /\ mu' = mutex_Unlock(mu)
    /\ LET fr == Top(t)
           n == Len(stack[t])
           below == SubSeq(stack[t], 1, n - 1)
       IN /\ stack' = [stack EXCEPT ![t] =
                 IF n > 1
                 THEN [below EXCEPT ![n - 1] = [@ EXCEPT !.nested = TRUE]]
                 ELSE below]
          /\ last' = [last EXCEPT ![t] =
                 [op |-> fr.op, m |-> fr.m, sock |-> fr.sock, f |-> fr.f,
                  failed |-> FALSE, u |-> fr.u,
                  buf0 |-> fr.buf0, buf1 |-> buf,
                  wire0 |-> fr.wire0, wire1 |-> Len(wire),
                  errs0 |-> fr.errs0, errs1 |-> Len(errs), cb0 |-> fr.cb0,
                  conn0 |-> fr.conn0, conn1 |-> conn,
                  rand0 |-> fr.rand0, rand1 |-> rand,
                  api |-> fr.api, fcalls |-> fr.fcalls]]
    /\ UNCHANGED <<buf, conn, errorFunc, rand, socks, wire, errs, left>>
    /\ UNCHANGED <<reconnVars, caseVars>>

----------------------------------------------------------------------------
\* The inputs of the calls.
RECURSIVE Repeat(_, _)
Repeat(str, n) == IF n = 0 THEN "" ELSE str \o Repeat(str, n - 1)

\* A stat name as long as a whole packet: strings.Repeat("a", tc.size).
BigStat == Repeat("a", BufSize)

\* Increment(stat, delta, rate)
IncrementArgs ==
    {<<"a", 1, RateOne>>, <<"a", -1, RateOne>>, <<"a", 1, 50>>, <<"a", 1, 0>>,
     <<BigStat, 1, RateOne>>, <<"a", 1, 150>>, <<"a", 1, -50>>}
\* Duration(stat, duration, rate), in nanoseconds
DurationArgs == {<<"t", 1499999, RateOne>>, <<"t", 1500000, RateOne>>}
\* Gauge(stat, value)
GaugeArgs == {<<"g", 3>>, <<"g", -1>>}
\* IncrementGauge(stat, delta)
IncrementGaugeArgs == {<<"g", 2>>, <<"g", -2>>}
\* Unique(stat, count)
UniqueArgs == {<<"u", 7>>}
\* TimeFunction(stat, rate, f)
TimeFunctionArgs == {<<"time", RateOne>>, <<"time", 50>>, <<"time", 0>>}

\* One goroutine calls the Client.
Call(t) ==
    \/ \E a \in IncrementArgs : Increment(t, a[1], a[2], a[3])
    \/ \E a \in DurationArgs : Duration(t, a[1], a[2], a[3])
    \/ \E a \in GaugeArgs : Gauge(t, a[1], a[2])
    \/ \E a \in IncrementGaugeArgs : IncrementGauge(t, a[1], a[2])
    \/ \E a \in UniqueArgs : Unique(t, a[1], a[2])
    \/ \E a \in TimeFunctionArgs : TimeFunction(t, a[1], a[2])
    \/ Flush(t)
    \/ \E f \in ErrorFuncs : SetErrorFunc(t, f)
    \/ \E addr \in Addrs : SetHostPort(t, addr)

\* A call in progress takes its next step.
Run(t) ==
    \/ TimeFunctionDuration(t)
    \/ Lock(t)
    \/ SendBody(t)
    \/ SendResume(t)
    \/ FlushBody(t)
    \/ SetErrorFuncBody(t)
    \/ SetHostPortBody(t)
    \/ ErrorFuncReturn(t)
    \/ ErrorFuncReenter(t)
    \/ Unlock(t)

Next == Call(1) \/ Run(1)

Spec == Init /\ [][Next]_vars

----------------------------------------------------------------------------
\* Concurrent goroutines. Goroutine t counts under a stat name of its own,
\* and every delta is the number of the call, so that every line put on the
\* wire tells which call made it.
StatOf(t) == SubSeq("abcdefgh", t, t)

CallConc(t) ==
    \/ Increment(t, StatOf(t), MaxConcOps - left + 1, RateOne)
    \/ Flush(t)
    \/ SetErrorFunc(t, "record")

InitConc ==
    /\ buf = ""
    /\ conn = 1
    /\ errorFunc = "nil"
    /\ mu = 0
    /\ rand = 0
    /\ socks = <<[addr |-> "127.0.0.1:999", closed |-> 0]>>
    /\ wire = <<>>
    /\ errs = <<>>
    /\ stack = [t \in Threads |-> <<>>]
    /\ last = [t \in Threads |-> NoCall]
    /\ left = MaxConcOps
    /\ NoClient
    /\ NoFacade
    /\ NoBufio
    /\ NoDuration
    /\ NoBatch
    /\ NoClients

RunConc(t) ==
    \/ Lock(t)
    \/ SendBody(t)
    \/ SendResume(t)
    \/ FlushBody(t)
    \/ SetErrorFuncBody(t)
    \/ ErrorFuncReturn(t)
    \/ Unlock(t)

NextConc == \E t \in Threads : CallConc(t) \/ RunConc(t)

SpecConc == InitConc /\ [][NextConc]_vars

----------------------------------------------------------------------------
(***************************************************************************)
(* Goroutines that share one Client and call its operations: sampled      *)
(* counters, Flush, SetErrorFunc and SetHostPort in SpecPar; counters,     *)
(* gauges and Flush in SpecGauge.                                          *)
(***************************************************************************)
MaxParOps == 3

\* Gauge(stat, value): a value below zero and one above
GaugeValues == {-1, 3}

CallPar(t) ==
    \/ Increment(t, StatOf(t), MaxParOps - left + 1, 50)
    \/ Flush(t)
    \/ SetErrorFunc(t, "record")
    \/ SetHostPort(t, "localhost:8125")

InitPar ==
    /\ buf = ""
    /\ conn = 1
    /\ errorFunc = "nil"
    /\ mu = 0
    /\ rand = 0
    /\ socks = <<[addr |-> "127.0.0.1:999", closed |-> 0]>>
    /\ wire = <<>>
    /\ errs = <<>>
    /\ stack = [t \in Threads |-> <<>>]
    /\ last = [t \in Threads |-> NoCall]
    /\ left = MaxParOps
    /\ NoClient
    /\ NoFacade
    /\ NoBufio
    /\ NoDuration
    /\ NoBatch
    /\ NoClients

RunPar(t) ==
    \/ Lock(t)
    \/ SendBody(t)
    \/ SendResume(t)
    \/ FlushBody(t)
    \/ SetErrorFuncBody(t)
    \/ SetHostPortBody(t)
    \/ ErrorFuncReturn(t)
    \/ Unlock(t)

NextPar == \E t \in Threads : CallPar(t) \/ RunPar(t)

SpecPar == InitPar /\ [][NextPar]_vars

CallGauge(t) ==
    \/ Increment(t, StatOf(t), MaxParOps - left + 1, RateOne)
    \/ \E v \in GaugeValues : Gauge(t, "g", v)
    \/ Flush(t)

\* No error callback is registered, so that send never waits for one.
RunGauge(t) ==
    \/ Lock(t)
    \/ SendBody(t)
    \/ FlushBody(t)
    \/ Unlock(t)

NextGauge == \E t \in Threads : CallGauge(t) \/ RunGauge(t)

SpecGauge == InitPar /\ [][NextGauge]_vars

\* Goroutines whose every step is taken in the end: counters that are
\* sampled, a counter too big for any packet, Flush, SetErrorFunc and
\* SetHostPort.
MaxLiveOps == 3

\* The goroutines that call the Client in SpecLive.
Callers == {1, 2}

InitLive ==
    /\ buf = ""
    /\ conn = 1
    /\ errorFunc = "nil"
    /\ mu = 0
    /\ rand = 0
    /\ socks = <<[addr |-> "127.0.0.1:999", closed |-> 0]>>
    /\ wire = <<>>
    /\ errs = <<>>
    /\ stack = [t \in Threads |-> <<>>]
    /\ last = [t \in Threads |-> NoCall]
    /\ left = MaxLiveOps
    /\ NoClient
    /\ NoFacade
    /\ NoBufio
    /\ NoDuration
    /\ NoBatch
    /\ NoClients

CallLive(t) ==
    \/ Increment(t, StatOf(t), 1, 50)
    \/ Increment(t, "toolongname", 1, RateOne)
    \/ Flush(t)
    \/ SetErrorFunc(t, "record")
    \/ SetHostPort(t, "localhost:8125")

NextLive == \E t \in Callers : CallLive(t) \/ RunPar(t)

\* The goroutine that has begun an operation goes on running (the runtime
\* preempts the others), the write and the callback return, and sync.Mutex
\* hands the lock to a goroutine that keeps waiting for it.
Fairness ==
    \A t \in Callers :
        /\ SF_vars(Lock(t))
        /\ WF_vars(SendBody(t) \/ SendResume(t) \/ FlushBody(t)
                       \/ SetErrorFuncBody(t) \/ SetHostPortBody(t)
                       \/ ErrorFuncReturn(t) \/ Unlock(t))

SpecLive == InitLive /\ [][NextLive]_vars /\ Fairness

\* IncrementGauge(stat, delta): a change below zero, none, and one above
GaugeDeltas == {-2, 0, 2}

\* One goroutine that changes a gauge and flushes.
CallDelta(t) ==
    \/ \E d \in GaugeDeltas : IncrementGauge(t, "g", d)
    \/ Flush(t)

NextDelta == CallDelta(1) \/ RunGauge(1)

SpecDelta == InitPar /\ [][NextDelta]_vars

----------------------------------------------------------------------------
(***************************************************************************)
(* One goroutine emits a batch of metrics with rate 1 into a new Client    *)
(* and then calls Flush.                                                   *)
(***************************************************************************)
MaxBatch == 2

\* The metrics of Increment, Gauge, IncrementGauge and Unique.
BatchMetrics ==
    {Metric("a", signMaybe, 1, "c", RateOne),
     Metric("a", signMaybe, -1, "c", RateOne),
     Metric("g", signNone, 3, "g", RateOne),
     Metric("g", signRequired, 2, "g", RateOne),
     Metric("u", signMaybe, 7, "s", RateOne)}

RECURSIVE SeqsOf(_, _)
SeqsOf(S, k) ==
    IF k = 0 THEN {<<>>}
    ELSE {Append(q, x) : q \in SeqsOf(S, k - 1), x \in S}

InitBatch ==
    /\ buf = ""
    /\ conn = 1
    /\ errorFunc = "nil"
    /\ mu = 0
    /\ rand = 0
    /\ socks = <<[addr |-> "127.0.0.1:999", closed |-> 0]>>
    /\ wire = <<>>
    /\ errs = <<>>
    /\ stack = [t \in Threads |-> <<>>]
    /\ last = [t \in Threads |-> NoCall]
    /\ NoClient
    /\ NoFacade
    /\ NoBufio
    /\ NoDuration
    /\ NoClients
    /\ \E k \in 1..MaxBatch : batch \in SeqsOf(BatchMetrics, k)
    /\ left = Len(batch) + 1

\* The next metric of the batch is emitted.
Emit(t) ==
    /\ left > 1
    /\ send(t, batch[Len(batch) + 2 - left])

\* The batch has been emitted: Flush.
FlushBatch(t) ==
    /\ left = 1
    /\ Flush(t)

\* No error callback is registered, so that send never waits for one.
RunBatch(t) ==
    \/ Lock(t)
    \/ SendBody(t)
    \/ FlushBody(t)
    \/ Unlock(t)

NextBatch == Emit(1) \/ FlushBatch(1) \/ RunBatch(1)

SpecBatch == InitBatch /\ [][NextBatch]_vars

----------------------------------------------------------------------------
(***************************************************************************)
(* Client.Duration's conversion of a duration to milliseconds, applied to  *)
(* durations over the whole range of a non-negative time.Duration.         *)
(***************************************************************************)
Durations ==
    {d \in {Int64(FALSE, h, m, l) :
                h \in {0, 1, 9223372},
                m \in {0, 123, 36853, 36854, 999999},
                l \in {0, 123456, 275807, 275808, 499999, 500000, 775807,
                       999999}} : FitsInt64(d)}

InitDuration ==
    /\ buf = ""
    /\ conn = 1
    /\ errorFunc = "nil"
    /\ mu = 0
    /\ rand = 0
    /\ socks = <<[addr |-> "127.0.0.1:999", closed |-> 0]>>
    /\ wire = <<>>
    /\ errs = <<>>
    /\ stack = [t \in Threads |-> <<>>]
    /\ last = [t \in Threads |-> NoCall]
    /\ left = 0
    /\ NoClient
    /\ NoFacade
    /\ NoBufio
    /\ time_Duration \in Durations
    /\ metric_n = NoMetricN
    /\ NoBatch
    /\ NoClients

\* Duration(stat, duration, rate) makes its metric: n is the duration in
\* milliseconds.
MakeMetric ==
    /\ metric_n = NoMetricN
    /\ metric_n' = Rounded(time_Duration)
    /\ UNCHANGED <<statsdVars, left, reconnVars, time_Duration, batch,
                   clients, source, current, api_log, bufioVars>>

NextDuration == MakeMetric

SpecDuration == InitDuration /\ [][NextDuration]_vars

----------------------------------------------------------------------------
(***************************************************************************)
(* Two Clients made by NewClient, each called by its own goroutine, one    *)
(* call at a time.  A call runs from c.mu.Lock() to c.mu.Unlock() in one   *)
(* step.  NewClient gives each Client "rand.New(rand.NewSource(0))": a     *)
(* generator of its own at the start of the sequence of seed 0.            *)
(***************************************************************************)
MaxTwoOps == 4

Clients == {1, 2}

\* What Float64 of a source may yield: a value below and one above the rate.
SourceValues == {0, 99}

\* &Client{size: defaultBufSize, rand: rand.New(rand.NewSource(0))}, with
\* the calls made on it (log), whether each emit was sampled in (decisions)
\* and the packets written (wire).
NewClient ==
    [buf |-> "", decisions |-> <<>>, log |-> <<>>, rand |-> 0, wire |-> <<>>]

InitTwo ==
    /\ buf = ""
    /\ conn = 1
    /\ errorFunc = "nil"
    /\ mu = 0
    /\ rand = 0
    /\ socks = <<[addr |-> "127.0.0.1:999", closed |-> 0]>>
    /\ wire = <<>>
    /\ errs = <<>>
    /\ stack = [t \in Threads |-> <<>>]
    /\ last = [t \in Threads |-> NoCall]
    /\ left = MaxTwoOps
    /\ NoClient
    /\ NoFacade
    /\ NoBufio
    /\ NoDuration
    /\ NoBatch
    /\ clients = [c \in Clients |-> NewClient]
    /\ source \in [1..MaxTwoOps -> SourceValues]

\* A faulty variant of randOf: every Client draws from the generator of the
\* first, as from the one source of package math/rand.
randShared(c) == 1

\* send: "c.rand", the generator that Client c draws from: its own
randOf(c) == c

\* Increment(stat, delta, rate) on Client c, through send; ok is the outcome
\* of the write, should send flush the buffer.
sendOn(c, stat, delta, rate, ok) ==
    /\ left > 0
    /\ left' = left - 1
    /\ rate < RateOne => clients[randOf(c)].rand < Len(source)
    /\ LET m == Metric(stat, signMaybe, delta, "c", rate)
           cl == clients[c]
           g == randOf(c)
           u == IF m.rate < RateOne THEN source[clients[g].rand + 1] ELSE NoDraw
           drawn == IF m.rate < RateOne
                    THEN [clients EXCEPT ![g].rand = @ + 1]
                    ELSE clients
           oldLen == Len(cl.buf)
           b == metric_append(m, cl.buf)
           writes == /\ ~sampledOut(m, u)
                     /\ ~fits(b)
                     /\ ~tooBig(oldLen)
                     /\ flushWrites(cl.buf)
           buf1 == IF sampledOut(m, u) THEN cl.buf
                   ELSE IF fits(b) THEN b
                   ELSE IF tooBig(oldLen) THEN cl.buf
                   ELSE IF flushWrites(cl.buf)
                   THEN carry(flushed(cl.buf, ok), b, oldLen)
                   ELSE carry(cl.buf, b, oldLen)
       IN /\ ~writes => ok
          /\ clients' =
                [drawn EXCEPT
                   ![c].buf = buf1,
                   ![c].wire = IF writes
                               THEN Append(@, [data |-> cl.buf, ok |-> ok])
                               ELSE @,
                   ![c].log = Append(@, [op |-> "send", m |-> m, ok |-> ok]),
                   ![c].decisions = Append(@, ~sampledOut(m, u))]
    /\ UNCHANGED <<statsdVars, reconnVars, time_Duration, metric_n, batch,
                   source, current, api_log, bufioVars>>

\* func (c *Client) Flush() on Client c; ok is the outcome of the write.
FlushOn(c, ok) ==
    /\ left > 0
    /\ left' = left - 1
    /\ LET cl == clients[c] IN
       /\ ~flushWrites(cl.buf) => ok
       /\ clients' =
             [clients EXCEPT
                ![c].buf = IF flushWrites(cl.buf) THEN flushed(cl.buf, ok) ELSE @,
                ![c].wire = IF flushWrites(cl.buf)
                            THEN Append(@, [data |-> cl.buf, ok |-> ok])
                            ELSE @,
                ![c].log = Append(@, [op |-> "Flush", m |-> NoMetric, ok |-> ok])]
    /\ UNCHANGED <<statsdVars, reconnVars, time_Duration, metric_n, batch,
                   source, current, api_log, bufioVars>>

NextTwo ==
    \E c \in Clients : \E ok \in BOOLEAN :
        \/ sendOn(c, "a", 1, 50, ok)
        \/ sendOn(c, "a", 1, RateOne, ok)
        \/ FlushOn(c, ok)

SpecTwo == InitTwo /\ [][NextTwo]_vars

----------------------------------------------------------------------------
(***************************************************************************)
(* The reconnecting client of src/statsd_test.go: type client.  Its calls  *)
(* are made by one goroutine and run to their return in one step.  A call  *)
(* works on a record st of the client's fields and of the network events,  *)
(* and ret is the error it returns.                                        *)
(***************************************************************************)
MaxReconnOps == 4

\* c.addr, set by newClient and never changed
client_addr == "localhost:8125"

errDial == "dial error"
errClosed == "use of closed network connection"

Cur ==
    [buf |-> client_buf, conn |-> client_conn, socks |-> client_socks,
     events |-> client_events, ret |-> "nil"]

\* func (c *client) connect() error: the old connection is left as it is.
connect(st) ==
    IF dialOK
    THEN LET s == Len(st.socks) + 1 IN
         [st EXCEPT !.socks = Append(@, [addr |-> client_addr, closed |-> 0,
                                         pending |-> FALSE]),
                    !.conn = s,
                    !.events = Append(@, [ev |-> "dial", sock |-> s,
                                          data |-> client_addr, ok |-> TRUE,
                                          rcvd |-> FALSE]),
                    !.ret = "nil"]
    ELSE [st EXCEPT !.events = Append(@, [ev |-> "dial", sock |-> 0,
                                          data |-> client_addr, ok |-> FALSE,
                                          rcvd |-> FALSE]),
                    !.ret = errDial]

\* What a datagram written while nobody listens may do: the write fails, the
\* datagram is lost without a trace, or it is lost and the error that comes
\* back is reported by the next write on the same connection.
WriteChoices == {"fail", "lost", "icmp"}

\* The choice matters only while nobody listens.
Choices == IF listening THEN {"lost"} ELSE WriteChoices

\* c.conn.Write(data): a closed connection and one with an error pending
\* refuse the write; a listener receives what is written.
Write(st, data, x) ==
    LET s == st.conn
        usable == st.socks[s].closed = 0 /\ ~st.socks[s].pending
        ok == usable /\ (listening \/ x # "fail")
    IN [st EXCEPT !.socks[s].pending = usable /\ ~listening /\ x = "icmp",
                  !.events = Append(@, [ev |-> "write", sock |-> s,
                                        data |-> data, ok |-> ok,
                                        rcvd |-> ok /\ listening]),
                  !.ret = IF ok THEN "nil" ELSE errWrite]

\* A faulty variant of retryData: the buffer is reset before the retry.
retryDataReset(b) == ""

\* Flush: the retry is "c.conn.Write(c.buf.Bytes())"
retryData(b) == b

\* A faulty variant of afterFlush: what a failed Flush could not write stays buffered.
afterFlushKeepsFailed(b, ret) == IF ret = "nil" THEN "" ELSE b

\* Flush: "defer c.buf.Reset()"
afterFlush(b, ret) == ""

\* A faulty variant of connectFirst: Flush gives up without dialing.
connectSkipped(st) == [st EXCEPT !.ret = errDial]

\* Flush: "if c.conn == nil { err := c.connect() ..."
connectFirst(st) == connect(st)

\* func (c *client) Flush() error
Flushed(st, x1, x2) ==
    LET done(s) == [s EXCEPT !.buf = afterFlush(st.buf, s.ret)]
        s1 == IF st.conn = 0 THEN connectFirst(st) ELSE [st EXCEPT !.ret = "nil"]
    IN IF s1.ret # "nil" THEN done(s1)
       ELSE LET s2 == Write(s1, s1.buf, x1) IN
            IF s2.ret = "nil" THEN done(s2)
            ELSE LET s3 == connect(s2) IN
                 IF s3.ret # "nil" THEN done(s3)
                 ELSE done(Write(s3, retryData(s3.buf), x2))

\* func (c *client) Close() error
Closed(st, x1, x2) ==
    LET s1 == Flushed(st, x1, x2) IN
    IF s1.ret # "nil" THEN s1
    ELSE IF s1.conn # 0
    THEN LET open == s1.socks[s1.conn].closed = 0 IN
         [s1 EXCEPT !.socks[s1.conn].closed = @ + 1,
                    !.events = Append(@, [ev |-> "close", sock |-> s1.conn,
                                          data |-> "", ok |-> open,
                                          rcvd |-> FALSE]),
                    !.ret = IF open THEN "nil" ELSE errClosed]
    ELSE s1

\* fmt's %g of a rate given in hundredths
FormatG(r) == FormatFloat(r)

\* fmt.Sprintf(format, n) for a format with one %d
Sprintf(format, n) ==
    LET i == CHOOSE k \in 1..(Len(format) - 1) : SubSeq(format, k, k + 1) = "%d"
    IN SubSeq(format, 1, i - 1) \o FormatInt(n) \o SubSeq(format, i + 2, Len(format))

\* The format string send builds from its arguments.
Format(stat, rate, format) ==
    stat \o ":" \o (IF rate < RateOne THEN format \o "|@" \o FormatG(rate)
                    ELSE format)

\* func (c *client) send(stat, rate, format, args...) error, with u the value
\* of rand.Float64()
Sent(st, stat, rate, format, n, u, x1, x2) ==
    IF rate < RateOne /\ ~(u < rate) THEN st
    ELSE LET f == Format(stat, rate, format)
             s1 == IF (BufSize - Len(st.buf)) < Len(f)
                   THEN Flushed(st, x1, x2)
                   ELSE st
         IN IF s1.ret # "nil" THEN s1
            ELSE [s1 EXCEPT !.buf = (IF Len(@) > 0 THEN @ \o "\n" ELSE @)
                                    \o Sprintf(f, n)]

\* The call op returns with the client as in s.
Return(op, line, included, s) ==
    /\ client_buf' = s.buf
    /\ client_conn' = s.conn
    /\ client_socks' = s.socks
    /\ client_events' = s.events
    /\ client_log' = Append(client_log,
           [op |-> op, line |-> line, included |-> included, ret |-> s.ret,
            buf0 |-> client_buf, buf1 |-> s.buf,
            ev0 |-> Len(client_events), ev1 |-> Len(s.events),
            good |-> dialOK /\ listening,
            open1 |-> s.conn # 0 /\ s.socks[s.conn].closed = 0])

\* func (c *client) Increment(stat, count, rate) error
client_Increment(stat, count, rate) ==
    /\ left > 0
    /\ left' = left - 1
    /\ \E u \in (IF rate < RateOne THEN Draws ELSE {NoDraw}) :
       \E x1, x2 \in Choices :
          Return("Increment", Sprintf(Format(stat, rate, "%d|c"), count),
                 ~(rate < RateOne /\ ~(u < rate)),
                 Sent(Cur, stat, rate, "%d|c", count, u, x1, x2))
    /\ UNCHANGED <<dialOK, listening>>
    /\ UNCHANGED <<statsdVars, caseVars>>

\* The caller calls c.Flush().
client_Flush ==
    /\ left > 0
    /\ left' = left - 1
    /\ \E x1, x2 \in Choices :
          Return("Flush", "", FALSE, Flushed(Cur, x1, x2))
    /\ UNCHANGED <<dialOK, listening>>
    /\ UNCHANGED <<statsdVars, caseVars>>

\* The caller calls c.Close().
client_Close ==
    /\ left > 0
    /\ left' = left - 1
    /\ \E x1, x2 \in Choices :
          Return("Close", "", FALSE, Closed(Cur, x1, x2))
    /\ UNCHANGED <<dialOK, listening>>
    /\ UNCHANGED <<statsdVars, caseVars>>

\* A listener is bound to c.addr, or the one bound there is closed.
Listen ==
    /\ listening' = ~listening
    /\ UNCHANGED <<client_buf, client_conn, client_socks, client_events,
                   client_log, dialOK, left>>
    /\ UNCHANGED <<statsdVars, caseVars>>

\* c.addr starts or stops to resolve.
Resolve ==
    /\ dialOK' = ~dialOK
    /\ UNCHANGED <<client_buf, client_conn, client_socks, client_events,
                   client_log, listening, left>>
    /\ UNCHANGED <<statsdVars, caseVars>>

\* newClient(addr) has returned c and the error of c.connect().
InitReconn ==
    /\ dialOK \in BOOLEAN
    /\ listening \in BOOLEAN
    /\ LET s == connect([buf |-> "", conn |-> 0, socks |-> <<>>,
                         events |-> <<>>, ret |-> "nil"])
       IN /\ client_buf = s.buf
          /\ client_conn = s.conn
          /\ client_socks = s.socks
          /\ client_events = s.events
    /\ client_log = <<>>
    /\ NoDuration
    /\ NoBatch
    /\ NoClients
    /\ NoFacade
    /\ NoBufio
    /\ left = MaxReconnOps
    /\ buf = ""
    /\ conn = 0
    /\ errorFunc = "nil"
    /\ mu = 0
    /\ rand = 0
    /\ socks = <<>>
    /\ wire = <<>>
    /\ errs = <<>>
    /\ stack = [t \in Threads |-> <<>>]
    /\ last = [t \in Threads |-> NoCall]

\* Every count is the number of the call, so that every line tells which
\* call buffered it.
NextReconn ==
    \/ client_Increment("a", MaxReconnOps - left + 1, RateOne)
    \/ client_Flush
    \/ client_Close
    \/ Listen
    \/ Resolve

SpecReconn == InitReconn /\ [][NextReconn]_vars

----------------------------------------------------------------------------
(***************************************************************************)
(* The package-level facade: SetAddr and Time of api.go, over the no-op    *)
(* client of nil.go and the client that Dial returns.                      *)
(***************************************************************************)
MaxApiOps == 4

\* func (*nilClient) Time(stat, rate, f) error: "return nil"
nilClient_Time(stat, rate, ret) == [fcalls |-> 0, ret |-> "nil"]

\* func (c *client) Time(stat, rate, f) error: f(), then ret is what
\* c.Duration returns
client_Time(stat, rate, ret) == [fcalls |-> 1, ret |-> ret]

\* func Time(stat, rate, f) error: "return current.Time(stat, rate, f)"
api_Time(stat, rate) ==
    /\ left > 0
    /\ left' = left - 1
    /\ \E ret \in {"nil", errWrite} :
          LET r == IF current = "nilClient"
                   THEN nilClient_Time(stat, rate, ret)
                   ELSE client_Time(stat, rate, ret)
          IN api_log' = Append(api_log,
                 [op |-> "Time", cur |-> current, rate |-> rate,
                  fcalls |-> r.fcalls, ret |-> r.ret])
    /\ UNCHANGED <<current, statsdVars, reconnVars, time_Duration, metric_n,
                   batch, clients, source, bufioVars>>

\* func SetAddr(addr) error: the prior client is closed, and current is the
\* client Dial returns or, when the dial fails, the no-op client again.
api_SetAddr(addr) ==
    /\ left > 0
    /\ left' = left - 1
    /\ current' = IF dialOK THEN "client" ELSE "nilClient"
    /\ api_log' = Append(api_log,
           [op |-> "SetAddr", cur |-> current, rate |-> RateOne, fcalls |-> 0,
            ret |-> IF dialOK THEN "nil" ELSE errDial])
    /\ UNCHANGED <<statsdVars, reconnVars, time_Duration, metric_n,
                   batch, clients, source, bufioVars>>

InitFacade ==
    /\ dialOK \in BOOLEAN
    /\ listening = FALSE
    /\ left = MaxApiOps
    /\ NoFacade
    /\ NoBufio
    /\ client_buf = ""
    /\ client_conn = 0
    /\ client_socks = <<>>
    /\ client_events = <<>>
    /\ client_log = <<>>
    /\ NoDuration
    /\ NoBatch
    /\ NoClients
    /\ buf = ""
    /\ conn = 0
    /\ errorFunc = "nil"
    /\ mu = 0
    /\ rand = 0
    /\ socks = <<>>
    /\ wire = <<>>
    /\ errs = <<>>
    /\ stack = [t \in Threads |-> <<>>]
    /\ last = [t \in Threads |-> NoCall]

NextFacade ==
    \/ \E rate \in {50, RateOne} : api_Time("t", rate)
    \/ api_SetAddr(client_addr)
    \/ Resolve

SpecFacade == InitFacade /\ [][NextFacade]_vars

\* Counts of one digit and of two, so that the encoded line is as long as
\* the format string less one, or as long as the format string.
Counts == {1, 10}

NextSize ==
    \/ \E n \in Counts : client_Increment("a", n, RateOne)
    \/ client_Flush

SpecSize == InitReconn /\ [][NextSize]_vars

----------------------------------------------------------------------------
(***************************************************************************)
(* The client of statsd.go lines 320-461: a bufio.Writer over the          *)
(* connection, and a mutex that send takes and Flush and Close do not.     *)
(* Goroutines call send, Flush and Close; every access to c.buf and to     *)
(* the writer is a step of its own, so that the steps of two calls         *)
(* interleave wherever no lock orders them.  A nil dereference panics and  *)
(* ends the program.                                                       *)
(***************************************************************************)
MaxBufioOps == 4

notBufio == <<statsdVars, reconnVars, time_Duration, metric_n, batch,
              clients, source, current, api_log>>

\* The program has panicked.
Crashed == \E t \in Threads : bufio_pc[t] = "panic"

\* func (b *Writer) Available() int
Available(b) == BufSize - Len(b)

\* Goroutine t goes to pc, with the locals loc.
Goto(t, pc, loc) ==
    /\ bufio_pc' = [bufio_pc EXCEPT ![t] = pc]
    /\ bufio_loc' = [bufio_loc EXCEPT ![t] = loc]

\* Goroutine t dereferences c.buf, which is nil.
Panics(t) ==
    /\ Goto(t, "panic", [bufio_loc[t] EXCEPT !.at = bufio_pc[t]])
    /\ UNCHANGED <<bufio_buf, bufio_nil, bufio_err, bufio_m, bufio_wire,
                   bufio_closed, bufio_done>>

\* func (c *client) send(stat, rate, format, args...) error, called with
\* rate 1 and format "%d|c": the format string is made before the lock is
\* asked for.
bufio_send(t, stat, n) ==
    /\ ~Crashed
    /\ bufio_pc[t] = "idle"
    /\ left > 0
    /\ left' = left - 1
    /\ LET f == Format(stat, RateOne, "%d|c")
       IN Goto(t, "lock", [at |-> "", cont |-> "send", format |-> f,
                           line |-> Sprintf(f, n), p |-> ""])
    /\ UNCHANGED <<bufio_buf, bufio_nil, bufio_err, bufio_m, bufio_wire,
                   bufio_closed, bufio_done>>
    /\ UNCHANGED notBufio

\* send: "c.m.Lock()"
bufio_Lock(t) ==
    /\ ~Crashed
    /\ bufio_pc[t] = "lock"
    /\ bufio_m = 0
    /\ bufio_m' = t
    /\ Goto(t, "check", bufio_loc[t])
    /\ UNCHANGED <<bufio_buf, bufio_nil, bufio_err, bufio_wire, bufio_closed,
                   bufio_done, left>>
    /\ UNCHANGED notBufio

\* send: "if c.buf.Available() < len(format) { c.Flush() ..."
bufio_Check(t) ==
    /\ ~Crashed
    /\ bufio_pc[t] = "check"
    /\ IF bufio_nil THEN Panics(t)
       ELSE /\ Goto(t, IF Available(bufio_buf) < Len(bufio_loc[t].format)
                       THEN "flush" ELSE "newline", bufio_loc[t])
            /\ UNCHANGED <<bufio_buf, bufio_nil, bufio_err, bufio_m,
                           bufio_wire, bufio_closed, bufio_done>>
    /\ UNCHANGED left
    /\ UNCHANGED notBufio

\* Where the call of goroutine t goes on when its c.Flush() has returned:
\* Flush returns to its caller; send returns nil on an error and else goes
\* on; Close returns the error, and else discards the writer.
Flushed_pc(t, failed) ==
    IF bufio_loc[t].cont = "send" THEN (IF failed THEN "unlock" ELSE "newline")
    ELSE IF bufio_loc[t].cont = "Close" /\ ~failed THEN "closeNil"
    ELSE "idle"

\* The locals that go with Flushed_pc.
Flushed_loc(t, failed) ==
    IF Flushed_pc(t, failed) = "idle"
    THEN NoLocals
    ELSE bufio_loc[t]

\* func (c *client) Flush() error: "return c.buf.Flush()", up to the write.
\* The writer returns its sticky error, or nil when nothing is buffered, or
\* hands what is buffered to the conn; ok is the outcome of that write.
bufio_FlushWrite(t) ==
    /\ ~Crashed
    /\ bufio_pc[t] = "flush"
    /\ IF bufio_nil THEN Panics(t)
       ELSE IF bufio_err
       THEN /\ Goto(t, Flushed_pc(t, TRUE), Flushed_loc(t, TRUE))
            /\ UNCHANGED <<bufio_buf, bufio_nil, bufio_err, bufio_m,
                           bufio_wire, bufio_closed, bufio_done>>
       ELSE IF bufio_buf = ""
       THEN /\ Goto(t, Flushed_pc(t, FALSE), Flushed_loc(t, FALSE))
            /\ UNCHANGED <<bufio_buf, bufio_nil, bufio_err, bufio_m,
                           bufio_wire, bufio_closed, bufio_done>>
       ELSE \E ok \in BOOLEAN :
            /\ bufio_closed => ~ok
            /\ IF ok
               THEN /\ bufio_wire' = Append(bufio_wire, bufio_buf)
                    /\ Goto(t, "flushReset", bufio_loc[t])
                    /\ UNCHANGED bufio_err
               ELSE /\ bufio_err' = TRUE
                    /\ Goto(t, Flushed_pc(t, TRUE), Flushed_loc(t, TRUE))
                    /\ UNCHANGED bufio_wire
            /\ UNCHANGED <<bufio_buf, bufio_nil, bufio_m, bufio_closed,
                           bufio_done>>
    /\ UNCHANGED left
    /\ UNCHANGED notBufio

\* bufio.Writer.Flush after the write: "b.n = 0"
bufio_FlushReset(t) ==
    /\ ~Crashed
    /\ bufio_pc[t] = "flushReset"
    /\ bufio_buf' = ""
    /\ Goto(t, Flushed_pc(t, FALSE), Flushed_loc(t, FALSE))
    /\ UNCHANGED <<bufio_nil, bufio_err, bufio_m, bufio_wire, bufio_closed,
                   bufio_done, left>>
    /\ UNCHANGED notBufio

\* send: "if c.buf.Buffered() > 0 { format = fmt.Sprintf("\n%s", format) }"
bufio_Newline(t) ==
    /\ ~Crashed
    /\ bufio_pc[t] = "newline"
    /\ IF bufio_nil THEN Panics(t)
       ELSE /\ Goto(t, "write",
                   [bufio_loc[t] EXCEPT
                       !.p = IF Len(bufio_buf) > 0
                             THEN "\n" \o bufio_loc[t].line
                             ELSE bufio_loc[t].line])
            /\ UNCHANGED <<bufio_buf, bufio_nil, bufio_err, bufio_m,
                           bufio_wire, bufio_closed, bufio_done>>
    /\ UNCHANGED left
    /\ UNCHANGED notBufio

\* func (b *Writer) Write(p): what does not fit fills the buffer, which is
\* flushed, or goes to the conn directly when nothing is buffered; the rest
\* is buffered.  The result is the buffer and the datagrams written.
Writer_Write(b, p) ==
    IF Len(p) <= Available(b) THEN [buf |-> b \o p, out |-> <<>>]
    ELSE IF b = "" THEN [buf |-> "", out |-> <<p>>]
    ELSE LET k == Available(b)
             rest == SubSeq(p, k + 1, Len(p))
         IN IF Len(rest) > BufSize
            THEN [buf |-> "", out |-> <<b \o SubSeq(p, 1, k), rest>>]
            ELSE [buf |-> rest, out |-> <<b \o SubSeq(p, 1, k)>>]

\* send: "_, err := fmt.Fprintf(c.buf, format, args...)"
bufio_Write(t) ==
    /\ ~Crashed
    /\ bufio_pc[t] = "write"
    /\ IF bufio_nil THEN Panics(t)
       ELSE IF bufio_err
       THEN /\ Goto(t, "unlock", bufio_loc[t])
            /\ UNCHANGED <<bufio_buf, bufio_nil, bufio_err, bufio_m,
                           bufio_wire, bufio_closed, bufio_done>>
       ELSE LET w == Writer_Write(bufio_buf, bufio_loc[t].p) IN
            /\ bufio_buf' = w.buf
            /\ bufio_wire' = bufio_wire \o w.out
            /\ bufio_done' = Append(bufio_done, bufio_loc[t].line)
            /\ Goto(t, "unlock", bufio_loc[t])
            /\ UNCHANGED <<bufio_nil, bufio_err, bufio_m, bufio_closed>>
    /\ UNCHANGED left
    /\ UNCHANGED notBufio

\* send: "defer c.m.Unlock()"
bufio_Unlock(t) ==
    /\ ~Crashed
    /\ bufio_pc[t] = "unlock"
    /\ bufio_m' = 0
    /\ Goto(t, "idle", NoLocals)
    /\ UNCHANGED <<bufio_buf, bufio_nil, bufio_err, bufio_wire, bufio_closed,
                   bufio_done, left>>
    /\ UNCHANGED notBufio

\* The caller calls c.Flush() or c.Close(): neither asks for c.m, and
\* Close begins with "if err := c.Flush(); err != nil".
bufio_Call(t, op) ==
    /\ ~Crashed
    /\ bufio_pc[t] = "idle"
    /\ left > 0
    /\ left' = left - 1
    /\ Goto(t, "flush", [bufio_loc[t] EXCEPT !.cont = op])
    /\ UNCHANGED <<bufio_buf, bufio_nil, bufio_err, bufio_m, bufio_wire,
                   bufio_closed, bufio_done>>
    /\ UNCHANGED notBufio

bufio_Flush(t) == bufio_Call(t, "Flush")

bufio_Close(t) == bufio_Call(t, "Close")

\* Close: "c.buf = nil"
bufio_CloseNil(t) ==
    /\ ~Crashed
    /\ bufio_pc[t] = "closeNil"
    /\ bufio_nil' = TRUE
    /\ Goto(t, "closeConn", bufio_loc[t])
    /\ UNCHANGED <<bufio_buf, bufio_err, bufio_m, bufio_wire, bufio_closed,
                   bufio_done, left>>
    /\ UNCHANGED notBufio

\* Close: "return c.conn.Close()"
bufio_CloseConn(t) ==
    /\ ~Crashed
    /\ bufio_pc[t] = "closeConn"
    /\ bufio_closed' = TRUE
    /\ Goto(t, "idle", NoLocals)
    /\ UNCHANGED <<bufio_buf, bufio_nil, bufio_err, bufio_m, bufio_wire,
                   bufio_done, left>>
    /\ UNCHANGED notBufio

\* Dial(addr) has returned the client.
InitBufio ==
    /\ left = MaxBufioOps
    /\ NoBufio
    /\ NoFacade
    /\ NoClient
    /\ NoDuration
    /\ NoBatch
    /\ NoClients
    /\ buf = ""
    /\ conn = 0
    /\ errorFunc = "nil"
    /\ mu = 0
    /\ rand = 0
    /\ socks = <<>>
    /\ wire = <<>>
    /\ errs = <<>>
    /\ stack = [t \in Threads |-> <<>>]
    /\ last = [t \in Threads |-> NoCall]

\* Every count is the number of the call, so that every line tells which
\* call emitted it.
NextBufio ==
    \E t \in Threads :
        \/ bufio_send(t, "a", MaxBufioOps - left + 1)
        \/ bufio_Flush(t)
        \/ bufio_Close(t)
        \/ bufio_Lock(t)
        \/ bufio_Check(t)
        \/ bufio_FlushWrite(t)
        \/ bufio_FlushReset(t)
        \/ bufio_Newline(t)
        \/ bufio_Write(t)
        \/ bufio_Unlock(t)
        \/ bufio_CloseNil(t)
        \/ bufio_CloseConn(t)

SpecBufio == InitBufio /\ [][NextBufio]_vars

----------------------------------------------------------------------------
(***************************************************************************)
(* Properties of the Client.                                               *)
(***************************************************************************)
\* The call record l is an emit that passed the sampling gate.
Included(l) == l.op = "send" /\ ~(l.m.rate < RateOne /\ l.u >= l.m.rate)

\* sub occurs in str as a run of consecutive bytes.
Contains(str, sub) ==
    \E i \in 1..(Len(str) - Len(sub) + 1) : SubSeq(str, i, i + Len(sub) - 1) = sub

\* The lines of a packet: the payload split at its newlines.
RECURSIVE Lines(_)
Lines(data) ==
    IF \E i \in 1..Len(data) : SubSeq(data, i, i) = "\n"
    THEN LET i == CHOOSE k \in 1..Len(data) :
                      /\ SubSeq(data, k, k) = "\n"
                      /\ \A j \in 1..(k - 1) : SubSeq(data, j, j) # "\n"
         IN <<SubSeq(data, 1, i - 1)>> \o Lines(SubSeq(data, i + 1, Len(data)))
    ELSE <<data>>

\* Every line handed to the transport, in the order of the wire.
RECURSIVE LinesUpTo(_)
LinesUpTo(n) == IF n = 0 THEN <<>> ELSE LinesUpTo(n - 1) \o Lines(wire[n].data)
WireLines == LinesUpTo(Len(wire))

\* The line of the n-th call when goroutine t made it (SpecConc).
CallLine(t, n) == Encode(Metric(StatOf(t), signMaybe, n, "c", RateOne))

\* The goroutine whose call made the line, and the number of that call.
CallerOf(line) == CHOOSE t \in Threads : StatOf(t) = SubSeq(line, 1, 1)
CallOf(line) ==
    CHOOSE n \in 1..MaxConcOps : line = CallLine(CallerOf(line), n)

\* C1: the length of the packet buffer never exceeds the maximum size, for
\* metrics of any encoded length.
C1_BufWithinSize == Len(buf) <= BufSize

\* C2: an emit whose encoded line alone is longer than the maximum size is
\* reported to the registered callback as "metric too big", is not stored in
\* the buffer and is not written, whatever the buffer held; an empty buffer
\* stays empty.
C2_TooBigRejected ==
    LET l == last[1] IN
    (Included(l) /\ Len(Encode(l.m)) > BufSize) =>
        /\ l.cb0 # "nil" =>
              /\ l.errs1 = l.errs0 + 1
              /\ errs[l.errs1].err = errTooBig
        /\ ~Contains(l.buf1, Encode(l.m))
        /\ \A i \in (l.wire0 + 1)..Len(wire) : ~Contains(wire[i].data, Encode(l.m))
        /\ l.buf0 = "" => l.buf1 = ""

\* The call record l is an emit that found the buffer non-empty and too full
\* for the new entry and its separating newline.
Overflows(l) ==
    /\ Included(l)
    /\ l.buf0 # ""
    /\ Len(l.buf0) + 1 + Len(Encode(l.m)) > BufSize

\* C3: an emit that overflows a non-empty buffer makes exactly one write,
\* of the buffer as it was before the emit, and leaves exactly the new
\* entry's encoding in the buffer; the Flush that follows writes exactly
\* that entry.
C3_OverflowState ==
    LET l == last[1] IN
    Overflows(l) =>
        /\ l.wire1 = l.wire0 + 1
        /\ wire[l.wire1].data = l.buf0
        /\ l.buf1 = Encode(l.m)

C3_NextFlush ==
    (Overflows(last[1]) /\ At(1, "body") /\ Top(1).op = "Flush") =>
        /\ Len(wire') = Len(wire) + 1
        /\ wire'[Len(wire')].data = Encode(last[1].m)

C3_Overflow == [](C3_OverflowState) /\ [][C3_NextFlush]_vars

C3_Witness ==
    /\ Overflows(last[1])
    /\ Idle(1)
    /\ last[1].wire1 = last[1].wire0 + 1
    /\ Len(Lines(last[1].buf0)) > 1

\* C4, as claimed: while the error callback runs, the goroutine that called
\* it does not hold c.mu.
C4_CallbackUnlocked ==
    \A t \in Threads : \A i \in DOMAIN stack[t] :
        stack[t][i].pc = "errorFunc" => mu # t

\* C4, amended: while the error callback runs, the goroutine that called it
\* holds c.mu, and a call the callback makes on the same Client stays at
\* c.mu.Lock().
C4_CallbackHoldsLock ==
    \A t \in Threads : \A i \in DOMAIN stack[t] :
        /\ stack[t][i].pc = "errorFunc" => mu = t
        /\ i > 1 => stack[t][i].pc = "lock" /\ mu = t

C4_Witness ==
    /\ Len(stack[1]) = 2
    /\ stack[1][1].pc = "errorFunc"
    /\ Top(1).pc = "lock"
    /\ mu = 1

\* C5: two lines of the same goroutine that are both handed to the transport
\* are on the wire in the order of their calls.
C5_SameThreadOrder ==
    LET L == WireLines IN
    \A i, j \in 1..Len(L) :
        (i < j /\ CallerOf(L[i]) = CallerOf(L[j])) =>
            CallOf(L[i]) < CallOf(L[j])

C5_Witness ==
    /\ Len(wire) >= 2
    /\ \E n1, n2 \in 1..MaxConcOps :
          /\ n1 < n2
          /\ Contains(wire[1].data, CallLine(1, n1))
          /\ Contains(wire[2].data, CallLine(1, n2))
    /\ \E n \in 1..MaxConcOps : Contains(wire[1].data, CallLine(2, n))

\* C6: a Flush of an empty buffer makes no write and calls no callback; a
\* Flush of a non-empty buffer makes exactly one write.
C6_FlushWrites ==
    LET l == last[1] IN
    l.op = "Flush" =>
        IF l.buf0 = ""
        THEN l.wire1 = l.wire0 /\ l.errs1 = l.errs0
        ELSE l.wire1 = l.wire0 + 1

C6_Witness ==
    /\ last[1].op = "Flush"
    /\ last[1].buf0 = ""
    /\ last[1].cb0 # "nil"
    /\ Idle(1)

\* C7: the buffer is empty when Flush returns, whether its write failed or
\* not, and no line of a failed write is written by a later write.
C7_FlushDiscards ==
    /\ \A t \in Threads : last[t].op = "Flush" => last[t].buf1 = ""
    /\ \A i \in DOMAIN wire :
          ~wire[i].ok =>
              LET failed == Lines(wire[i].data) IN
              \A j \in (i + 1)..Len(wire) :
                  LET later == Lines(wire[j].data) IN
                  \A x \in DOMAIN failed : \A y \in DOMAIN later :
                      failed[x] # later[y]

C7_Witness ==
    \E t \in Threads :
        /\ last[t].op = "Flush"
        /\ last[t].wire1 = last[t].wire0 + 1
        /\ ~wire[last[t].wire1].ok
        /\ Len(wire) > last[t].wire1

----------------------------------------------------------------------------
(***************************************************************************)
(* Properties of the reconnecting client.                                  *)
(***************************************************************************)
\* The dials, writes and closes made by the call of record l.
Ev(l) == SubSeq(client_events, l.ev0 + 1, l.ev1)

IsReceived(e) == e.ev = "write" /\ e.rcvd

\* C8: no call makes more than two writes; a Flush whose first write fails
\* dials c.addr exactly once and, if the dial succeeds, writes the same bytes
\* exactly once more on the new connection and returns the error of that
\* write; if the dial fails it writes nothing more and returns the dial's
\* error.
C8_ReconnectOnce ==
    \A i \in DOMAIN client_log :
        LET l == client_log[i]
            E == Ev(l)
            W == {j \in DOMAIN E : E[j].ev = "write"}
        IN /\ Cardinality(W) <= 2
           /\ (l.op = "Flush" /\ W # {}) =>
                 LET k == CHOOSE j \in W : \A j2 \in W : j <= j2 IN
                 ~E[k].ok =>
                    /\ Len(E) > k
                    /\ E[k + 1].ev = "dial"
                    /\ E[k + 1].data = client_addr
                    /\ IF E[k + 1].ok
                       THEN /\ Len(E) = k + 2
                            /\ E[k + 2].ev = "write"
                            /\ E[k + 2].sock = E[k + 1].sock
                            /\ E[k + 2].data = E[k].data
                            /\ l.ret = IF E[k + 2].ok THEN "nil" ELSE errWrite
                       ELSE /\ Len(E) = k + 1
                            /\ l.ret = errDial

C8_Witness ==
    \E i \in DOMAIN client_log :
        LET l == client_log[i]
            E == Ev(l)
        IN /\ l.op = "Flush"
           /\ l.buf0 # ""
           /\ Len(E) = 3
           /\ E[1].ev = "write" /\ ~E[1].ok
           /\ E[2].ev = "dial" /\ E[2].ok
           /\ E[3].ev = "write" /\ ~E[3].ok
           /\ l.ret = errWrite

\* The calls i, i+1, i+2 are a Flush, an emit at rate 1 and a Flush, and the
\* last two are made while c.addr resolves and a listener is bound to it.
Recovering(i) ==
    /\ client_log[i].op = "Flush"
    /\ client_log[i + 1].op = "Increment"
    /\ client_log[i + 1].included
    /\ client_log[i + 1].good
    /\ client_log[i + 2].op = "Flush"
    /\ client_log[i + 2].good

\* C9: whatever was buffered and dropped before a Flush, an emit and a Flush
\* made after it while the destination accepts writes both return nil, and
\* the listener receives from that Flush exactly one packet, which is
\* exactly the line of the emit.
C9_Recovers ==
    \A i \in 1..(Len(client_log) - 2) :
        Recovering(i) =>
            LET R == SelectSeq(Ev(client_log[i + 2]), IsReceived) IN
            /\ client_log[i + 1].ret = "nil"
            /\ client_log[i + 2].ret = "nil"
            /\ Len(R) = 1
            /\ R[1].data = client_log[i + 1].line

C9_Witness ==
    \E i \in 2..(Len(client_log) - 2) :
        /\ Recovering(i)
        /\ client_log[i - 1].op = "Increment"
        /\ ~client_log[i - 1].good
        /\ client_log[i].buf0 # ""
        /\ SelectSeq(Ev(client_log[i]), IsReceived) = <<>>
        /\ Len(Ev(client_log[i + 2])) = 3

\* C10: when Close has returned, with an error or without, the client's
\* connection is closed.
C10_CloseReleases ==
    \A i \in DOMAIN client_log :
        client_log[i].op = "Close" => ~client_log[i].open1

----------------------------------------------------------------------------
(***************************************************************************)
(* Further properties of the Client.                                       *)
(***************************************************************************)
\* The step is a call of SetHostPort whose dial fails: it returns at once.
SetHostPortFails ==
    /\ left' = left - 1
    /\ stack' = stack
    /\ last'[1].op = "SetHostPort"
    /\ last'[1].failed

\* The step is the write of a Flush called right after a SetHostPort that
\* returned an error.
FlushAfterFailure ==
    /\ last[1].op = "SetHostPort"
    /\ last[1].failed
    /\ At(1, "body")
    /\ Top(1).op = "Flush"
    /\ Len(wire') = Len(wire) + 1

\* C11: a SetHostPort that returns an error leaves the connection, which is
\* open, the buffer and the error callback as they were, and the Flush after
\* it writes to the connection of before the call; when NewClient's dial
\* fails there is no Client: no connection, and no call is ever made.
C11_FailedCallFrame == SetHostPortFails =>
    /\ conn' = conn
    /\ socks' = socks
    /\ socks[conn].closed = 0
    /\ buf' = buf
    /\ errorFunc' = errorFunc
    /\ wire' = wire

C11_LaterFlush == FlushAfterFailure =>
    /\ wire'[Len(wire')].sock = last[1].conn0
    /\ socks[last[1].conn0].closed = 0

C11_NoClient == conn = 0 =>
    /\ socks = <<>>
    /\ left = 0
    /\ Idle(1)
    /\ wire = <<>>

C11_SetHostPortError ==
    /\ [](C11_NoClient)
    /\ [][C11_FailedCallFrame]_vars
    /\ [][C11_LaterFlush]_vars

C11_Witness ==
    /\ last[1].op = "SetHostPort"
    /\ last[1].failed
    /\ last[1].buf0 # ""
    /\ At(1, "unlock")
    /\ Top(1).op = "Flush"
    /\ Len(wire) = Top(1).wire0 + 1
    /\ wire[Len(wire)].sock = last[1].conn0

\* C12: a SetHostPort that returns nil has made no write and has left the
\* buffer as it was, the connection of before the call has been closed
\* exactly once, the dialed connection is installed, and every write made
\* after the call goes to it; no connection is ever closed twice.
C12_SetHostPortKeeps ==
    LET l == last[1] IN
    /\ \A s \in DOMAIN socks : socks[s].closed <= 1
    /\ (l.op = "SetHostPort" /\ ~l.failed) =>
          /\ l.buf1 = l.buf0
          /\ l.wire1 = l.wire0
          /\ l.conn1 = l.sock
          /\ l.conn1 # l.conn0
          /\ socks[l.conn0].closed = 1
          /\ \A i \in (l.wire1 + 1)..Len(wire) : wire[i].sock = l.conn1

C12_Witness ==
    /\ last[1].op = "SetHostPort"
    /\ ~last[1].failed
    /\ last[1].buf0 # ""
    /\ Len(wire) = last[1].wire1 + 1
    /\ wire[Len(wire)].data = last[1].buf0

\* What a call has done between the lengths w0 and e0 of wire and errs it
\* found and the lengths w1 and e1 it left, with callback cb registered: as
\* many reports of the write error as failed writes, at most one, and no
\* report of anything when no callback is registered.
ReportsWriteErrors(w0, w1, e0, e1, cb) ==
    LET Failed == {i \in (w0 + 1)..w1 : ~wire[i].ok}
        Reported == {j \in (e0 + 1)..e1 : errs[j].err = errWrite}
    IN /\ Cardinality(Failed) <= 1
       /\ \A j \in (e0 + 1)..e1 : errs[j].cb = cb /\ errs[j].by = 1
       /\ IF cb = "nil"
          THEN e1 = e0
          ELSE Cardinality(Reported) = Cardinality(Failed)

\* C13: in every call, a failed write of the buffer is reported exactly once
\* to the registered callback, as the write error; a write that succeeds is
\* not reported; with no callback registered nothing is called and the call
\* goes on to its return, the buffer flushed as after any write.
C13_WriteErrorReported ==
    /\ LET l == last[1] IN
       l.op \in {"send", "Flush"} =>
           ReportsWriteErrors(l.wire0, l.wire1, l.errs0, l.errs1, l.cb0)
    /\ \A k \in DOMAIN stack[1] :
          LET fr == stack[1][k] IN
          fr.pc \in {"errorFunc", "resume", "unlock"} =>
              /\ ReportsWriteErrors(fr.wire0, Len(wire), fr.errs0, Len(errs), fr.cb0)
              /\ fr.cb0 = "nil" => fr.pc = "unlock"
              /\ (fr.op = "Flush" /\ fr.pc = "unlock") => buf = ""

C13_Witness ==
    /\ last[1].op = "Flush"
    /\ last[1].cb0 = "record"
    /\ last[1].wire1 = last[1].wire0 + 1
    /\ ~wire[last[1].wire1].ok
    /\ last[1].errs1 = last[1].errs0 + 1
    /\ errs[last[1].errs1].err = errWrite

\* The emit of record l has done what an included metric does: the buffer
\* holds the metric appended, or the metric alone is too big and is
\* reported, or the buffer was written to make room.
Appended(l) ==
    IF Len(metric_append(l.m, l.buf0)) <= BufSize
    THEN l.buf1 = metric_append(l.m, l.buf0) /\ l.wire1 = l.wire0
    ELSE IF l.buf0 = ""
    THEN /\ l.buf1 = ""
         /\ l.wire1 = l.wire0
         /\ l.errs1 = l.errs0 + (IF l.cb0 = "nil" THEN 0 ELSE 1)
    ELSE l.wire1 = l.wire0 + 1 /\ l.buf1 = Encode(l.m)

\* The emit of record l has left the buffer, the wire and the callback alone.
Dropped(l) == l.buf1 = l.buf0 /\ l.wire1 = l.wire0 /\ l.errs1 = l.errs0

\* C14: an emit with rate >= 1 draws nothing from the random source and is
\* included; an emit with rate <= 0 is dropped; an emit with 0 < rate < 1
\* draws exactly once and is included exactly when the draw is below the
\* rate.
C14_Sampling ==
    LET l == last[1] IN
    l.op = "send" =>
        /\ l.m.rate >= RateOne => (l.rand1 = l.rand0 /\ l.u = NoDraw /\ Appended(l))
        /\ l.m.rate <= 0 => Dropped(l)
        /\ (0 < l.m.rate /\ l.m.rate < RateOne) =>
              /\ l.rand1 = l.rand0 + 1
              /\ l.u \in Draws
              /\ l.u < l.m.rate => Appended(l)
              /\ l.u >= l.m.rate => Dropped(l)

C14_Witness ==
    /\ last[1].op = "send"
    /\ last[1].m.rate = 50
    /\ last[1].u = 50
    /\ last[1].buf0 # ""
    /\ last[1].buf1 = last[1].buf0
    /\ last[1].rand1 = last[1].rand0 + 1

\* C15: TimeFunction calls f exactly once, whatever the rate, also when the
\* measurement is then dropped; and while f runs the timer metric is neither
\* sampled nor appended: no draw is made and the buffer stays as it is.
C15_CallsOnce ==
    /\ last[1].api = "TimeFunction" => last[1].fcalls = 1
    /\ \A k \in DOMAIN stack[1] :
          stack[1][k].api = "TimeFunction" => stack[1][k].fcalls = 1

C15_AfterF == At(1, "f") => (rand' = rand /\ buf' = buf /\ wire' = wire)

C15_TimeFunction == [](C15_CallsOnce) /\ [][C15_AfterF]_vars

C15_Witness ==
    /\ last[1].api = "TimeFunction"
    /\ last[1].op = "send"
    /\ last[1].m.rate = 0
    /\ last[1].fcalls = 1
    /\ last[1].buf0 # ""
    /\ last[1].buf1 = last[1].buf0

\* The lines that the emit of record l has added: those behind what the
\* buffer held, or the whole buffer when the emit has flushed it first.
Contributed(l) ==
    IF l.wire1 > l.wire0 \/ l.buf0 = ""
    THEN Lines(l.buf1)
    ELSE Lines(SubSeq(l.buf1, Len(l.buf0) + 2, Len(l.buf1)))

\* In the lines L of one packet every reset line of a gauge is directly
\* followed by the line of its negative value, and every line of a negative
\* value directly follows its reset line.
ResetAdjacent(L) ==
    \A i \in DOMAIN L :
        /\ L[i] = "g:0|g" => (i < Len(L) /\ L[i + 1] = "g:-1|g")
        /\ L[i] = "g:-1|g" => (i > 1 /\ L[i - 1] = "g:0|g")

\* C16: Gauge(name, v) with v < 0 adds exactly the two lines name:0|g and
\* name:v|g, one directly behind the other in the same packet, whatever the
\* other goroutines emit or flush meanwhile; with v >= 0 it adds the single
\* line name:v|g, without a sign.
C16_NegativeGauge ==
    /\ \A t \in Threads :
          LET l == last[t] IN
          (l.op = "send" /\ l.m.kind = "g" /\ l.m.sign = signNone) =>
              Contributed(l) =
                  IF l.m.n < 0
                  THEN <<l.m.stat \o ":0|g",
                         l.m.stat \o ":-" \o Digits(-l.m.n) \o "|g">>
                  ELSE <<l.m.stat \o ":" \o Digits(l.m.n) \o "|g">>
    /\ \A i \in DOMAIN wire : ResetAdjacent(Lines(wire[i].data))
    /\ ResetAdjacent(Lines(buf))

\* A negative gauge emitted while the other goroutine's counter was buffered:
\* the buffer was flushed and the two lines were carried over together, and
\* then written as one packet.
C16_Witness ==
    /\ last[1].op = "send"
    /\ last[1].m.kind = "g"
    /\ last[1].m.n < 0
    /\ last[1].wire1 = last[1].wire0 + 1
    /\ Contains(last[1].buf0, "b:")
    /\ Len(wire) > last[1].wire1
    /\ wire[last[1].wire1 + 1].data = "g:0|g\ng:-1|g"

\* The duration d in milliseconds, rounded half up:
\* floor((d + 500000) / 1000000), for d >= 0.
HalfUp(d) ==
    LET m2 == d.m + (IF d.l >= Millisecond \div 2 THEN 1 ELSE 0)
    IN Int64(FALSE, 0, d.h + m2 \div Millisecond, m2 % Millisecond)

\* C17: for every non-negative duration d, Duration records
\* floor((d + 500000) / 1000000) milliseconds.
C17_Rounds == metric_n # NoMetricN => metric_n = HalfUp(time_Duration)

\* The durations whose sum with half a millisecond is still an int64 are
\* rounded half up.
C17_RoundsUnlessOverflow ==
    (metric_n # NoMetricN /\ FitsInt64(Sum(time_Duration, Millisecond \div 2)))
        => metric_n = HalfUp(time_Duration)

\* math.MaxInt64 nanoseconds are recorded as -9223372036854 ms.
C17_Overflowed ==
    /\ time_Duration = MaxInt64
    /\ metric_n = Int64(TRUE, 0, 9223372, 36854)

\* The line of a metric of rate 1 as the statsd protocol writes it:
\* stat:value|kind, the value with "-" when negative and "+" only for a
\* gauge delta that is not negative.
ProtocolLine(m) ==
    m.stat \o ":"
      \o (IF m.n < 0 THEN "-" \o Digits(-m.n)
          ELSE IF m.sign = signRequired THEN "+" \o Digits(m.n)
          ELSE Digits(m.n))
      \o "|" \o m.kind

\* The lines of the metrics ms, each but the first behind one newline.
RECURSIVE Joined(_)
Joined(ms) ==
    IF Len(ms) = 1 THEN ProtocolLine(ms[1])
    ELSE Joined(SubSeq(ms, 1, Len(ms) - 1)) \o "\n" \o ProtocolLine(ms[Len(ms)])

BatchFlushed == left = 0 /\ Idle(1) /\ last[1].op = "Flush"

\* C18: when k >= 1 metrics of rate 1 whose lines joined by newlines fit the
\* buffer are emitted into an empty buffer and Flush is called, there is
\* exactly one write, of those lines in the order of the calls with one
\* newline between two of them and none before or behind; no write is made
\* before the Flush.  Increment(name, n, 1) and Flush write name:n|c, with
\* "-" before a negative n.
C18_BatchPacket ==
    Len(Joined(batch)) <= BufSize =>
        /\ left > 0 => wire = <<>>
        /\ Len(wire) <= 1
        /\ BatchFlushed =>
              /\ Len(wire) = 1
              /\ wire[1].data = Joined(batch)
              /\ wire[1].sock = 1
              /\ buf = ""

C18_Witness ==
    /\ BatchFlushed
    /\ Len(batch) = 2
    /\ batch[1].n = -1
    /\ batch[2].kind = "s"
    /\ Len(wire) = 1
    /\ wire[1].data = "a:-1|c\nu:7|s"
    /\ wire[1].ok

\* Goroutine t is between c.mu.Lock() and c.mu.Unlock().
InCritical(t) ==
    /\ stack[t] # <<>>
    /\ Top(t).pc \in {"body", "errorFunc", "resume", "unlock"}

\* The step changes a field that c.mu guards, or uses the connection.
TouchesGuarded ==
    \/ buf' # buf
    \/ conn' # conn
    \/ rand' # rand
    \/ errorFunc' # errorFunc
    \/ wire' # wire

\* The step is one of the goroutine that holds c.mu, and it keeps holding it.
StepOfHolder ==
    /\ mu # 0
    /\ mu' = mu
    /\ InCritical(mu)
    /\ stack'[mu] # stack[mu]
    /\ \A t \in Threads \ {mu} : stack'[t] = stack[t]

\* What the call of frame fr, which found buf0, wire0, conn0, cb0 and rand0
\* on taking the lock, leaves behind when it runs alone.
SequentialEffect(fr) ==
    LET l == [op |-> fr.op, m |-> fr.m, u |-> fr.u, cb0 |-> fr.cb0,
              buf0 |-> fr.buf0, buf1 |-> buf,
              wire0 |-> fr.wire0, wire1 |-> Len(wire),
              errs0 |-> fr.errs0, errs1 |-> Len(errs)]
        wrote == /\ Len(wire) = fr.wire0 + 1
                 /\ wire[Len(wire)].data = fr.buf0
                 /\ wire[Len(wire)].sock = fr.conn0
    IN CASE fr.op = "send" ->
              /\ IF Included(l) THEN Appended(l) ELSE Dropped(l)
              /\ Len(wire) > fr.wire0 => wrote
              /\ rand = fr.rand0 + (IF fr.m.rate < RateOne THEN 1 ELSE 0)
              /\ conn = fr.conn0 /\ errorFunc = fr.cb0
         [] fr.op = "Flush" ->
              /\ buf = ""
              /\ IF fr.buf0 = "" THEN Len(wire) = fr.wire0 ELSE wrote
              /\ rand = fr.rand0 /\ conn = fr.conn0 /\ errorFunc = fr.cb0
         [] fr.op = "SetErrorFunc" ->
              /\ errorFunc = fr.f
              /\ buf = fr.buf0 /\ Len(wire) = fr.wire0
              /\ rand = fr.rand0 /\ conn = fr.conn0
         [] fr.op = "SetHostPort" ->
              /\ conn = fr.sock
              /\ buf = fr.buf0 /\ Len(wire) = fr.wire0
              /\ rand = fr.rand0 /\ errorFunc = fr.cb0

C19_Exclusive ==
    \A t \in Threads :
        InCritical(t) =>
            /\ mu = t
            /\ Top(t).pc = "body" =>
                  /\ buf = Top(t).buf0 /\ Len(wire) = Top(t).wire0
                  /\ conn = Top(t).conn0 /\ errorFunc = Top(t).cb0
                  /\ rand = Top(t).rand0
            /\ Top(t).pc = "unlock" => SequentialEffect(Top(t))

C19_HolderOnly == TouchesGuarded => StepOfHolder

\* C19: whatever the interleaving of the goroutines' emits, Flush,
\* SetHostPort and SetErrorFunc, the buffer, the connection, the random
\* source and the callback are read and written only by the goroutine that
\* holds the lock; and every call leaves behind what it leaves when run alone
\* on the state it found on taking the lock, which is the state the holder
\* before it left: the buffer and the packets are those of the calls made
\* one after another in the order in which they took the lock.
C19_Serial == [](C19_Exclusive) /\ [][C19_HolderOnly]_vars

\* Goroutine t has emitted a sampled counter that flushed what the other
\* goroutine had buffered, while that goroutine waits for the lock with a
\* new connection.
C19_Witness ==
    \E t, o \in Threads :
        /\ t # o
        /\ mu = t
        /\ Top(t).pc = "unlock"
        /\ Top(t).op = "send"
        /\ Len(wire) = Top(t).wire0 + 1
        /\ Contains(Top(t).buf0, StatOf(o))
        /\ stack[o] # <<>>
        /\ Top(o).pc = "lock"
        /\ Top(o).op = "SetHostPort"

IsPrefix(a, b) == Len(a) <= Len(b) /\ SubSeq(b, 1, Len(a)) = a

\* The packets that Client c has written.
Packets(c) == [i \in DOMAIN clients[c].wire |-> clients[c].wire[i].data]

\* Two Clients that were asked the same, with the same outcomes of their
\* writes, have decided and written the same; and what one was asked first
\* the other has answered in the same way.
C20_SameRun ==
    \A c, d \in Clients :
        IsPrefix(clients[c].log, clients[d].log) =>
            /\ IsPrefix(clients[c].decisions, clients[d].decisions)
            /\ IsPrefix(Packets(c), Packets(d))
            /\ clients[c].log = clients[d].log =>
                  /\ clients[c].buf = clients[d].buf
                  /\ clients[c].rand = clients[d].rand

\* A call on one Client leaves every other Client as it was, its generator
\* included.
C20_Independent ==
    \A c \in Clients :
        clients'[c].log = clients[c].log => clients'[c] = clients[c]

\* C20: two new Clients that are given the same calls with the same
\* outcomes of their writes sample the same emits in and write the same
\* packets, however their calls are interleaved; and a call on one Client
\* changes nothing of another, so not its sampling either.
C20_OwnSource == [](C20_SameRun) /\ [][C20_Independent]_vars

\* Both Clients were given a sampled emit that was taken and then one that
\* was dropped.
C20_Witness ==
    /\ clients[1].log = clients[2].log
    /\ Len(clients[1].log) = 2
    /\ clients[1].decisions = <<TRUE, FALSE>>
    /\ clients[2].decisions = <<TRUE, FALSE>>
    /\ clients[1].buf = "a:1|c|@0.5"
    /\ clients[2].rand = 2


----------------------------------------------------------------------------
(***************************************************************************)
(* Properties of the Client: overflow, the form of the buffer, delivery.   *)
(***************************************************************************)
\* The emit of record l had to flush: the buffer held something and the
\* entry behind a newline would have gone beyond the maximum size.
MustFlush(l) ==
    /\ Len(l.buf0) > 0
    /\ Len(l.buf0) + 1 + Len(Encode(l.m)) > BufSize

\* C21: an included emit makes one transport write when the buffer holds
\* cur > 0 bytes and cur + 1 + e exceeds the maximum size, e being the length
\* of the metric's encoding, and none otherwise; an entry that fills the
\* buffer to exactly the maximum size is appended without a write.
C21_WritesOnOverflow ==
    LET l == last[1] IN
    Included(l) =>
        /\ l.wire1 = l.wire0 + (IF MustFlush(l) THEN 1 ELSE 0)
        /\ MustFlush(l) => wire[l.wire1].data = l.buf0
        /\ (l.buf0 # "" /\ Len(l.buf0) + 1 + Len(Encode(l.m)) = BufSize) =>
              l.buf1 = l.buf0 \o "\n" \o Encode(l.m)

\* An emit has filled the buffer to exactly the maximum size.
C21_Witness ==
    /\ Included(last[1])
    /\ last[1].buf0 # ""
    /\ Len(last[1].buf1) = BufSize
    /\ last[1].buf1 # last[1].buf0
    /\ last[1].wire1 = last[1].wire0

\* The emit of record l has flushed the buffer to make room, and that write
\* has failed.
FailedOverflow(l) ==
    /\ l.op = "send"
    /\ l.wire1 = l.wire0 + 1
    /\ ~wire[l.wire1].ok

StartsWith(str, pre) == Len(pre) <= Len(str) /\ SubSeq(str, 1, Len(pre)) = pre

\* The call that follows the call of record last[1] has done its work and is
\* about to unlock.
NextCallDone == Len(stack[1]) = 1 /\ At(1, "unlock")

\* C22, as the code has it: after an emit whose overflow flush has failed,
\* what the buffer held before is gone and the buffer holds exactly the
\* encoding of the metric that did not fit; the next call either leaves that
\* encoding at the head of the buffer or flushes it, at the head of the one
\* payload it hands to the transport, whether that write succeeds or not.
C22_Retained ==
    LET l == last[1] IN
    FailedOverflow(l) =>
        /\ l.buf1 = Encode(l.m)
        /\ wire[l.wire1].data = l.buf0
        /\ NextCallDone =>
              IF Len(wire) > Top(1).wire0
              THEN /\ Len(wire) = Top(1).wire0 + 1
                   /\ StartsWith(wire[Len(wire)].data, Encode(l.m))
              ELSE StartsWith(buf, Encode(l.m))

\* C22, as the claim has it: the metric kept after a failed overflow flush
\* stays in the buffer until a flush whose write succeeds delivers it.
C22_DeliveredOnSuccess ==
    LET l == last[1] IN
    (FailedOverflow(l) /\ NextCallDone) =>
        \/ StartsWith(buf, Encode(l.m))
        \/ /\ Len(wire) > Top(1).wire0
           /\ wire[Len(wire)].ok
           /\ StartsWith(wire[Len(wire)].data, Encode(l.m))

\* The overflow flush of an emit has failed, and the Flush called next has
\* delivered the metric kept.
C22_Witness ==
    /\ FailedOverflow(last[1])
    /\ NextCallDone
    /\ Top(1).op = "Flush"
    /\ Len(wire) = Top(1).wire0 + 1
    /\ wire[Len(wire)].ok
    /\ wire[Len(wire)].data = Encode(last[1].m)
    /\ buf = ""

\* The bytes of str are all among those of the string chars.
AllIn(str, chars) ==
    \A i \in 1..Len(str) : \E j \in 1..Len(chars) :
        SubSeq(str, i, i) = SubSeq(chars, j, j)

\* The first place of the byte ch in str, 0 when there is none.
IndexOf(str, ch) ==
    IF \E i \in 1..Len(str) : SubSeq(str, i, i) = ch
    THEN CHOOSE i \in 1..Len(str) :
            /\ SubSeq(str, i, i) = ch
            /\ \A j \in 1..(i - 1) : SubSeq(str, j, j) # ch
    ELSE 0

IsNumber(str) == Len(str) > 0 /\ AllIn(str, "0123456789")

\* A value: decimal digits behind at most one sign.
IsValue(str) ==
    IF Len(str) > 0 /\ SubSeq(str, 1, 1) \in {"+", "-"}
    THEN IsNumber(SubSeq(str, 2, Len(str)))
    ELSE IsNumber(str)

\* A rate: digits, with a fraction behind a point or without.
IsRate(str) ==
    LET p == IndexOf(str, ".") IN
    IF p = 0 THEN IsNumber(str)
    ELSE IsNumber(SubSeq(str, 1, p - 1)) /\ IsNumber(SubSeq(str, p + 1, Len(str)))

\* A kind, alone or followed by "|@" and a rate.
IsKindAndRate(str) ==
    LET p == IndexOf(str, "|") IN
    IF p = 0 THEN str \in {"c", "ms", "g", "s"}
    ELSE /\ SubSeq(str, 1, p - 1) \in {"c", "ms", "g", "s"}
         /\ SubSeq(str, p + 1, p + 1) = "@"
         /\ IsRate(SubSeq(str, p + 2, Len(str)))

\* One complete line of the protocol: name:value|kind or
\* name:value|kind|@rate, the name made of letters.
IsEntryLine(line) ==
    LET c == IndexOf(line, ":")
        rest == SubSeq(line, c + 1, Len(line))
        p == IndexOf(rest, "|")
    IN /\ c > 1
       /\ AllIn(SubSeq(line, 1, c - 1), "abcdefghijklmnopqrstuvwxyz")
       /\ p > 1
       /\ IsValue(SubSeq(rest, 1, p - 1))
       /\ IsKindAndRate(SubSeq(rest, p + 1, Len(rest)))

\* Complete lines with one newline between two of them, none before the
\* first and none behind the last.
IsEntries(data) ==
    LET L == Lines(data) IN \A i \in DOMAIN L : IsEntryLine(L[i])

\* C23: the buffer is always either empty or complete entries separated by
\* exactly one newline, without a newline at its head or its tail and without
\* a partial entry; every payload handed to the transport is not empty and
\* has that form.
C23_BufferForm ==
    /\ buf = "" \/ IsEntries(buf)
    /\ \A i \in DOMAIN wire : wire[i].data # "" /\ IsEntries(wire[i].data)

\* A sampled counter has been flushed to make room, and two entries are
\* buffered.
C23_Witness ==
    /\ Len(wire) = 1
    /\ Contains(wire[1].data, "|@0.5")
    /\ Len(Lines(buf)) = 2
    /\ Idle(1)

\* The entries of a buffer, line by line.
LinesOf(b) == IF b = "" THEN <<>> ELSE Lines(b)

\* The lines of the payloads number i to j of the wire, in order.
RECURSIVE Written(_, _)
Written(i, j) ==
    IF i > j THEN <<>> ELSE Written(i, j - 1) \o Lines(wire[j].data)

\* The emit of record l has passed the sampling gate and was not rejected as
\* too big.
Accepted(l) ==
    /\ Included(l)
    /\ ~(l.buf0 = "" /\ Len(Encode(l.m)) > BufSize)

\* C24: when the writes succeed no metric is lost and none is written twice.
\* Every call (an emit, Flush, SetHostPort) keeps the account: the lines it
\* has written followed by the lines it leaves in the buffer are the lines
\* it found in the buffer followed by the lines of its own metric, if that
\* passed the sampling gate and was not rejected as too big; and Flush
\* leaves nothing in the buffer.  So after a Flush every such metric is on
\* the wire exactly once.
C24_NoneLostNoneTwice ==
    LET l == last[1] IN
    (l.op # "none" /\ \A i \in (l.wire0 + 1)..l.wire1 : wire[i].ok) =>
        /\ Written(l.wire0 + 1, l.wire1) \o LinesOf(l.buf1)
              = LinesOf(l.buf0)
                  \o (IF Accepted(l) THEN Lines(Encode(l.m)) ELSE <<>>)
        /\ l.op = "Flush" => l.buf1 = ""
        /\ \A i \in (l.wire0 + 1)..l.wire1 : wire[i].sock = l.conn0

\* An emit, a SetHostPort and a Flush whose write to the new connection has
\* succeeded.
C24_Witness ==
    /\ last[1].op = "Flush"
    /\ last[1].buf0 # ""
    /\ Len(wire) = 1
    /\ wire[1].ok
    /\ wire[1].sock = 2
    /\ wire[1].data = last[1].buf0
    /\ Idle(1)


----------------------------------------------------------------------------
(***************************************************************************)
(* Further properties of the reconnecting client.                          *)
(***************************************************************************)
\* c.conn was set when the call of record l began: some dial before it has
\* succeeded.
ConnectedBefore(l) ==
    \E i \in 1..l.ev0 : client_events[i].ev = "dial" /\ client_events[i].ok

\* C25: a Flush made while the client has no connection dials the address
\* first.  When the dial fails the Flush returns its error, writes nothing
\* and leaves the buffer empty; when it succeeds the buffer is written on the
\* connection just made.
C25_LazyConnect ==
    \A i \in DOMAIN client_log :
        LET l == client_log[i]
            E == Ev(l)
        IN (l.op = "Flush" /\ ~ConnectedBefore(l)) =>
              /\ Len(E) >= 1
              /\ E[1].ev = "dial"
              /\ IF E[1].ok
                 THEN /\ Len(E) >= 2
                      /\ E[2].ev = "write"
                      /\ E[2].sock = E[1].sock
                      /\ E[2].data = l.buf0
                 ELSE /\ Len(E) = 1
                      /\ l.ret = errDial
                      /\ l.buf1 = ""

\* A Flush without a connection whose dial failed and dropped what was
\* buffered, and a later one whose dial succeeded and wrote its buffer.
C25_Witness ==
    \E i, j \in DOMAIN client_log :
        /\ i < j
        /\ client_log[i].op = "Flush" /\ client_log[j].op = "Flush"
        /\ ~ConnectedBefore(client_log[j])
        /\ client_log[i].buf0 # "" /\ client_log[i].ret = errDial
        /\ client_log[j].ret = "nil"
        /\ Len(Ev(client_log[j])) = 2
        /\ Ev(client_log[j])[2].ok


----------------------------------------------------------------------------
(***************************************************************************)
(* Further properties of the Client: changes of a gauge, termination.      *)
(***************************************************************************)
\* The one line of IncrementGauge(stat, d): the sign, then the digits.
DeltaLine(stat, d) ==
    stat \o ":" \o (IF d >= 0 THEN "+" ELSE "-")
         \o Digits(IF d >= 0 THEN d ELSE -d) \o "|g"

DeltaLines == {DeltaLine("g", d) : d \in GaugeDeltas}

\* C26: IncrementGauge(name, d) adds exactly one line: name:+d|g for every
\* d >= 0, zero included, and name:-|d||g without a '+' for d < 0; no reset
\* line name:0|g is ever written before it.
C26_SignedDelta ==
    /\ LET l == last[1] IN
       (l.op = "send" /\ l.m.sign = signRequired) =>
           Contributed(l) = <<DeltaLine(l.m.stat, l.m.n)>>
    /\ \A i \in DOMAIN wire :
          \A k \in DOMAIN Lines(wire[i].data) :
              Lines(wire[i].data)[k] \in DeltaLines
    /\ \A k \in DOMAIN LinesOf(buf) : LinesOf(buf)[k] \in DeltaLines

\* A change of zero was made behind a negative one and then flushed: the
\* two lines went out one after the other, with their signs.
C26_Witness ==
    /\ last[1].op = "Flush"
    /\ Len(wire) > 1
    /\ wire[Len(wire)].ok
    /\ wire[Len(wire) - 1].data = "g:-2|g"
    /\ wire[Len(wire)].data = "g:+0|g"


\* C27: when every write and every call of the error callback returns and
\* the goroutines are scheduled fairly, every emit, Flush, SetHostPort and
\* SetErrorFunc that any goroutine has begun returns in the end, and the lock
\* is free whenever no operation is in progress.
C27_Returns ==
    /\ \A t \in Callers : (~Idle(t)) ~> Idle(t)
    /\ []((\A t \in Threads : Idle(t)) => mu = 0)

\* No operation is in progress and the lock is free, after one goroutine has
\* returned from an emit that was too big and was reported, and the other
\* from an emit that was sampled out.
C27_Witness ==
    /\ \A t \in Threads : Idle(t)
    /\ mu = 0
    /\ last[1].op = "send"
    /\ last[1].m.stat = "toolongname"
    /\ last[1].errs1 > last[1].errs0
    /\ last[2].op = "send"
    /\ last[2].m.rate < RateOne
    /\ last[2].rand1 # last[2].rand0
    /\ last[2].buf1 = last[2].buf0


\* C28: every payload that the reconnecting client hands to the transport is
\* at most size bytes long, for metrics of any name and value.
C28_PayloadFits ==
    \A i \in DOMAIN client_events :
        client_events[i].ev = "write" =>
            Len(client_events[i].data) <= BufSize


----------------------------------------------------------------------------
(***************************************************************************)
(* Properties of the package-level facade.                                 *)
(***************************************************************************)
\* C29: Time(stat, rate, f) of the package calls f exactly once whatever
\* the current client is: the no-op client, before an address is set and
\* after a SetAddr that failed, or a client that Dial has returned.
C29_TimeCallsOnce ==
    \A i \in DOMAIN api_log :
        api_log[i].op = "Time" => api_log[i].fcalls = 1


----------------------------------------------------------------------------
(***************************************************************************)
(* The sockets of the reconnecting client.                                 *)
(***************************************************************************)
\* The sockets the client has dialed and nobody has closed.
OpenSockets == {s \in DOMAIN client_socks : client_socks[s].closed = 0}

\* C30: the reconnecting client owns at most one open socket at any time:
\* when a reconnect puts a new socket in place, the one held before has been
\* closed, so that once Close has closed the current one none is left open.
C30_OneSocket ==
    /\ Cardinality(OpenSockets) <= 1
    /\ OpenSockets \subseteq {client_conn}


----------------------------------------------------------------------------
(***************************************************************************)
(* Properties of the bufio client.                                         *)
(***************************************************************************)
\* The emit of goroutine t has made its overflow check and has not yet
\* written its line into the buffer.
BetweenCheckAndWrite(t) ==
    \/ bufio_pc[t] \in {"newline", "write"}
    \/ bufio_pc[t] \in {"flush", "flushReset"} /\ bufio_loc[t].cont = "send"

\* Goroutine t is in a Flush or a Close that its caller has made.
InFlushOrClose(t) ==
    bufio_pc[t] # "idle" /\ bufio_loc[t].cont \in {"Flush", "Close"}

\* This step of a Flush or a Close writes out, empties or discards the
\* buffer.
TouchesBuffer(t) ==
    /\ InFlushOrClose(t)
    /\ bufio_pc'[t] # bufio_pc[t]
    /\ \/ bufio_buf' # bufio_buf
       \/ bufio_nil' # bufio_nil
       \/ bufio_wire' # bufio_wire

\* No Flush or Close touches the buffer while an emit of another goroutine is
\* between its check and its write.
EmitExcluded ==
    \A t \in Threads :
        TouchesBuffer(t) =>
            ~\E u \in Threads \ {t} : BetweenCheckAndWrite(u)

\* The lines the emits of SpecBufio can make.
EmitLines == {Sprintf(Format("a", RateOne, "%d|c"), n) : n \in 1..MaxBufioOps}

\* Every datagram is made of whole lines.
WholeLines ==
    \A i \in DOMAIN bufio_wire :
        \A k \in DOMAIN Lines(bufio_wire[i]) :
            Lines(bufio_wire[i])[k] \in EmitLines

\* Every line whose emit has returned nil is in a datagram or in the buffer.
NoLineLost ==
    (\A t \in Threads : bufio_pc[t] = "idle") =>
        \A j \in DOMAIN bufio_done :
            \/ \E i \in DOMAIN bufio_wire :
                   \E k \in DOMAIN Lines(bufio_wire[i]) :
                       Lines(bufio_wire[i])[k] = bufio_done[j]
            \/ \E k \in DOMAIN LinesOf(bufio_buf) :
                   LinesOf(bufio_buf)[k] = bufio_done[j]

\* No emit that has passed its check finds the writer discarded.
NoWriteAfterClose ==
    \A t \in Threads :
        bufio_pc[t] = "panic" => bufio_loc[t].at \notin {"newline", "write"}

\* C31: a Flush or a Close made while another goroutine emits on the same
\* client never touches the buffer between the overflow check of the emit
\* and its write into the buffer, so that no line is lost in part, no
\* datagram holds a torn line and no emit writes into a buffer that Close
\* has discarded.
C31_FlushExcludesEmit ==
    /\ [][EmitExcluded]_vars
    /\ [](WholeLines /\ NoLineLost /\ NoWriteAfterClose)

====
